---- MODULE Spec2Model ----
(***************************************************************************)
(* A model of the multi-agent traffic simulation: the grid city, the       *)
(* incident store (EventManager), the A* router, the traffic-light agent   *)
(* and the vehicle agents.  Every operation is translated from the Python  *)
(* source; wall-clock and event-loop time is the integer variable now.     *)
(***************************************************************************)
EXTENDS Integers, Sequences, FiniteSets, TLC

(***************************************************************************)
(* Bounds of the model.                                                    *)
(***************************************************************************)
GridW == 3
GridH == 3
MaxTime == 3

(***************************************************************************)
(* environment/city.py: the grid graph.                                    *)
(***************************************************************************)
Nodes == (0 .. GridW - 1) \X (0 .. GridH - 1)

Abs(n) == IF n < 0 THEN -n ELSE n

manhattan(a, b) == Abs(a[1] - b[1]) + Abs(a[2] - b[2])

\* nx.grid_2d_graph: two nodes are joined iff they differ by one in one coordinate
neighbors(node) == {n \in Nodes : manhattan(n, node) = 1}

\* city.graph.edges(), in both orientations
DirectedEdges == {e \in Nodes \X Nodes : e[2] \in neighbors(e[1])}

\* _add_traffic_lights: one light at every node whose coordinates are multiples of 4
LightStep == 4
traffic_lights == {n \in Nodes : n[1] % LightStep = 0 /\ n[2] % LightStep = 0}

(***************************************************************************)
(* environment/events.py: EventManager.                                    *)
(***************************************************************************)
\* Python's tuple order on nodes (lexicographic)
NodeLE(u, v) == u[1] < v[1] \/ (u[1] = v[1] /\ u[2] <= v[2])

\* The edge is taken as the key the way it was given
edge_as_given(edge) == edge

\* _normalize_edge of EventManager and of Occupancy
normalize_edge(edge) ==
    IF NodeLE(edge[1], edge[2]) THEN <<edge[1], edge[2]>> ELSE <<edge[2], edge[1]>>

Max(a, b) == IF a >= b THEN a ELSE b

Min(a, b) == IF a <= b THEN a ELSE b

\* Incident.is_active at time t
is_active(inc, t) == t < inc.expires_at

\* Incident(edge, severity, ttl) constructed at time t (__post_init__)
Incident(severity, ttl, t) ==
    [severity |-> severity, ttl |-> ttl, created_at |-> t, expires_at |-> t + ttl]

\* clear_expired at time t: the store without the incidents whose time has passed
clear_expired(store, t) ==
    [e \in {x \in DOMAIN store : ~(store[x].expires_at <= t \/ ~is_active(store[x], t))}
        |-> store[e]]

\* spawn_incident that overwrites the severity of the incident it refreshes
spawn_incident_overwrite(store, edge, severity, ttl, t) ==
    LET e == normalize_edge(edge)
        live == clear_expired(store, t)
    IN  [x \in DOMAIN live \cup {e} |->
            IF x # e THEN live[x]
            ELSE IF e \in DOMAIN live /\ is_active(live[e], t)
            THEN [live[e] EXCEPT !.severity = severity, !.expires_at = t + ttl]
            ELSE Incident(severity, ttl, t)]

\* spawn_incident at time t: the store afterwards
spawn_incident(store, edge, severity, ttl, t) ==
    LET e == normalize_edge(edge)
        live == clear_expired(store, t)
    IN  IF e \in DOMAIN live /\ is_active(live[e], t)
        THEN [live EXCEPT ![e].severity = Max(live[e].severity, severity),
                          ![e].expires_at = t + ttl]
        ELSE [x \in DOMAIN live \cup {e} |->
                 IF x = e THEN Incident(severity, ttl, t) ELSE live[x]]

BlockSeverity == 10

\* spawn_temporary_block
spawn_temporary_block(store, edge, ttl, t) ==
    spawn_incident(store, edge, BlockSeverity, ttl, t)

BlockThreshold == 3

\* is_blocked without its sweep: the stored severity alone decides
is_blocked_no_sweep(store, edge, threshold, t) ==
    LET e == normalize_edge(edge)
    IN  e \in DOMAIN store /\ store[e].severity >= threshold

\* is_blocked at time t: the value returned (the store is swept by the call)
is_blocked(store, edge, threshold, t) ==
    LET e == normalize_edge(edge)
        live == clear_expired(store, t)
    IN  e \in DOMAIN live /\ live[e].severity >= threshold

\* penalty at time t
penalty(store, edge, t) ==
    LET e == normalize_edge(edge)
        live == clear_expired(store, t)
    IN  IF e \in DOMAIN live THEN live[e].severity ELSE 0

\* blocked_edges at time t
blocked_edges(store, threshold, t) ==
    LET live == clear_expired(store, t)
    IN  {e \in DOMAIN live : live[e].severity >= threshold}

(***************************************************************************)
(* agents/emergency_vehicle.py: the gossip handler at the head of          *)
(* EmergencyBehaviour.run.                                                 *)
(***************************************************************************)
\* A merge that refreshes like spawn_incident but takes the remote expiry
merge_refresh(store, payload, t) ==
    LET e == normalize_edge(payload.edge)
        live == clear_expired(store, t)
    IN  [raised |-> "none",
         store |->
            IF e \in DOMAIN live
            THEN [live EXCEPT ![e].severity = Max(live[e].severity, payload.severity),
                              ![e].expires_at = payload.expires_at]
            ELSE [x \in DOMAIN live \cup {e} |->
                    IF x = e
                    THEN [severity |-> payload.severity, ttl |-> payload.expires_at - t,
                          created_at |-> t, expires_at |-> payload.expires_at]
                    ELSE live[x]]]

\* A merge that adds the remote severity to the stored one
merge_additive(store, payload, t) ==
    LET e == normalize_edge(payload.edge)
    IN  [raised |-> "none",
         store |->
            IF e \in DOMAIN store
            THEN [store EXCEPT ![e].severity = store[e].severity + payload.severity]
            ELSE [x \in DOMAIN store \cup {e} |->
                    IF x = e
                    THEN [severity |-> payload.severity, ttl |-> payload.expires_at - t,
                          created_at |-> t, expires_at |-> payload.expires_at]
                    ELSE store[x]]]

\* self.agent.city.event_manager.merge_from_message(payload): EventManager has
\* no such attribute, so the call raises AttributeError before touching the store
merge_from_message(store, payload, t) ==
    [raised |-> "AttributeError", store |-> store]

\* Lines 316-329: a message whose JSON body is a dict of type incident_gossip
\* with a payload is merged; an exception of the merge is caught and printed.
\* data.payload is <<>> (absent) or <<payload>>
on_gossip(store, data, t) ==
    IF data.type = "incident_gossip" /\ data.payload # <<>>
    THEN merge_from_message(store, data.payload[1], t)
    ELSE [raised |-> "none", store |-> store]

(***************************************************************************)
(* utils/routing.py: A* and its project wrappers.  Costs and priorities are *)
(* kept in tenths, so that weight 1.2 is the integer 12; ties in the heap   *)
(* are broken by Python's tuple order on (f, node).                         *)
(***************************************************************************)
NoPath == [kind |-> "none", path |-> <<>>]
Raised(error) == [kind |-> error, path |-> <<>>]
Found(path) == [kind |-> "path", path |-> path]

Reverse(s) == [i \in 1 .. Len(s) |-> s[Len(s) + 1 - i]]

\* _reconstruct: walk came_from back from current, then reverse
RECURSIVE walk_back(_, _)
walk_back(came_from, current) ==
    IF current \in DOMAIN came_from
    THEN <<current>> \o walk_back(came_from, came_from[current])
    ELSE <<current>>

reconstruct(came_from, current) == Reverse(walk_back(came_from, current))

\* edge_cost in route_a_star: the city has neither edge_cost nor time_penalty,
\* so every edge costs 1.0 whatever the estimated tick
EdgeCost == 10

ExactWeight == 10
NearOptimalWeight == 12

\* The order of heap entries (f, node)
HeapLess(a, b) ==
    \/ a[1] < b[1]
    \/ a[1] = b[1] /\ a[2] # b[2] /\ NodeLE(a[2], b[2])

heap_min(heap) == CHOOSE m \in heap : \A o \in heap \ {m} : HeapLess(m, o)

\* An edge is expanded whatever is_forbidden_fn says
edge_open_always(forbid, cur, nb) == TRUE

\* Line 148: the edge is skipped when is_forbidden_fn(cur, nb) is true
edge_open(forbid, cur, nb) == forbid[<<cur, nb>>] # "yes"

\* The while loop of astar.  st = [heap, came_from, g]; forbid maps a directed
\* edge to what is_forbidden_fn does there: "yes", "no" or the exception raised
RECURSIVE astar_loop(_, _, _, _)
astar_loop(st, goal, forbid, weight) ==
    IF st.heap = {} THEN NoPath
    ELSE
        LET top == heap_min(st.heap)
            cur == top[2]
            raising == {nb \in neighbors(cur) : forbid[<<cur, nb>>] \notin {"yes", "no"}}
            tentative == st.g[cur] + EdgeCost
            better == {nb \in neighbors(cur) :
                          /\ edge_open(forbid, cur, nb)
                          /\ (nb \in DOMAIN st.g => tentative < st.g[nb])}
        IN  IF cur = goal THEN Found(reconstruct(st.came_from, cur))
            ELSE IF raising # {}
            THEN Raised(forbid[<<cur, CHOOSE nb \in raising : TRUE>>])
            ELSE astar_loop(
                    [heap |-> (st.heap \ {top})
                                \cup {<<tentative + weight * manhattan(nb, goal), nb>> :
                                         nb \in better},
                     came_from |-> [n \in DOMAIN st.came_from \cup better |->
                                       IF n \in better THEN cur ELSE st.came_from[n]],
                     g |-> [n \in DOMAIN st.g \cup better |->
                               IF n \in better THEN tentative ELSE st.g[n]]],
                    goal, forbid, weight)

\* astar(start, goal, city.neighbors, edge_cost, manhattan, is_forbidden_fn, weight)
astar(start, goal, forbid, weight) ==
    astar_loop([heap |-> {<<0, start>>}, came_from |-> [n \in {} |-> start],
                g |-> [n \in {start} |-> 0]],
               goal, forbid, weight)

\* events.is_blocked(a, b) as is_forbidden calls it: is_blocked(edge, threshold)
\* takes node a for the edge, _normalize_edge unpacks it into two ints and
\* tuple(int) raises TypeError
is_blocked_of_nodes(store, a, b, t) == "TypeError"

\* occupancy.is_full(a, b): is_full(edge, threshold) compares the float rho(a)
\* with the tuple b, which raises TypeError
is_full_of_nodes(a, b) == "TypeError"

\* is_forbidden of route_a_star (events and occupancy are the city's objects)
is_forbidden(store, a, b, ignore_capacity, t) ==
    LET blocked == is_blocked_of_nodes(store, a, b, t)
    IN  IF blocked \notin {"yes", "no"} THEN blocked
        ELSE IF blocked = "yes" THEN "yes"
        ELSE IF ~ignore_capacity THEN is_full_of_nodes(a, b)
        ELSE "no"

\* route_a_star(city, events, occupancy, start, goal, weight, ignore_capacity)
route_a_star(store, start, goal, weight, ignore_capacity, t) ==
    astar(start, goal,
          [e \in DirectedEdges |-> is_forbidden(store, e[1], e[2], ignore_capacity, t)],
          weight)

\* route_weighted: weight 1.2, capacity respected
route_weighted(store, start, goal, t) ==
    route_a_star(store, start, goal, NearOptimalWeight, FALSE, t)

\* route_exact: weight 1.0
route_exact(store, start, goal, ignore_capacity, t) ==
    route_a_star(store, start, goal, ExactWeight, ignore_capacity, t)

\* An is_forbidden_fn that asks the store about the edge (a, b) itself
forbidden_by_incident(store, t) ==
    [e \in DirectedEdges |-> IF is_blocked(store, e, BlockThreshold, t) THEN "yes" ELSE "no"]

(***************************************************************************)
(* environment/occupancy.py: Occupancy.  A density is an integer number of *)
(* millionths.                                                             *)
(***************************************************************************)
Scale == 1000000

\* default_capacity
Capacity == 5

\* The edges of the graph, normalized
Segments == {normalize_edge(e) : e \in DirectedEdges}

\* set_capacity(u, v, cap): the capacities afterwards
set_capacity(caps, edge, cap) == [caps EXCEPT ![normalize_edge(edge)] = Max(cap, 1)]

\* _instant_rho without the clipping to 1.0
instant_rho_unclipped(usage, caps, edge) ==
    (Cardinality(usage[edge]) * Scale) \div Max(caps[edge], 1)

\* _instant_rho: min(count / cap, 1.0) with cap = max(self.capacity[edge], 1)
instant_rho(usage, caps, edge) ==
    Min((Cardinality(usage[edge]) * Scale) \div Max(caps[edge], 1), Scale)

\* rho: alpha * instant + (1 - alpha) * prev with alpha = 0.3; the value is
\* stored as the new smoothed density
rho(usage, caps, smoothed, edge) ==
    (3 * instant_rho(usage, caps, edge) + 7 * smoothed[edge]) \div 10

\* is_full(edge, threshold=0.9)
FullThreshold == 900000

\* Occupancy.is_full: the value returned (the call updates the smoothed density)
is_full(usage, caps, smoothed, edge) ==
    rho(usage, caps, smoothed, normalize_edge(edge)) >= FullThreshold

\* _distance(a, b) <= radius, on the squares
within(a, b, radius) ==
    (a[1] - b[1]) * (a[1] - b[1]) + (a[2] - b[2]) * (a[2] - b[2]) <= radius * radius

RECURSIVE SumOver(_, _)
SumOver(S, f) ==
    IF S = {} THEN 0
    ELSE LET x == CHOOSE y \in S : TRUE IN f[x] + SumOver(S \ {x}, f)

\* local_density(position, radius): the value returned and the smoothed
\* densities afterwards
local_density(usage, caps, smoothed, position, radius) ==
    LET nearby == {e \in Segments : within(position, e[1], radius)
                                       \/ within(position, e[2], radius)}
        after == [e \in DOMAIN smoothed |->
                     IF e \in nearby THEN rho(usage, caps, smoothed, e) ELSE smoothed[e]]
    IN  [value |-> IF nearby = {} THEN 0 ELSE SumOver(nearby, after) \div Cardinality(nearby),
         smoothed |-> after]

DensityRadius == 2

(***************************************************************************)
(* agents/traffic_lights.py: the traffic-light agent.  Times are in        *)
(* hundredths of a second, densities in thousandths.                       *)
(***************************************************************************)
\* ALLOWED_BY_PHASE[phase] admits every direction
allowed_any(phase) == {"N", "S", "E", "W"}

\* ALLOWED_BY_PHASE[phase]
ALLOWED_BY_PHASE(phase) == IF phase = 0 THEN {"N", "S"} ELSE {"E", "W"}

PHASE_DURATION == 500

\* direction with the sign of the delta taken for the heading, whatever its length
direction_by_sign(from_pos, to_pos) ==
    LET dx == to_pos[1] - from_pos[1]
        dy == to_pos[2] - from_pos[2]
    IN  IF Len(from_pos) # 2 \/ Len(to_pos) # 2 THEN "ValueError"
        ELSE IF dx > 0 THEN "E"
        ELSE IF dx < 0 THEN "W"
        ELSE IF dy > 0 THEN "N"
        ELSE IF dy < 0 THEN "S"
        ELSE "None"

\* direction(from_pos, to_pos): "None" for a diagonal, long or zero move; the
\* unpacking (x1, y1) = from_pos raises ValueError on a tuple of another length
direction(from_pos, to_pos) ==
    LET dx == to_pos[1] - from_pos[1]
        dy == to_pos[2] - from_pos[2]
    IN  IF Len(from_pos) # 2 \/ Len(to_pos) # 2 THEN "ValueError"
        ELSE IF dx = 1 /\ dy = 0 THEN "E"
        ELSE IF dx = -1 /\ dy = 0 THEN "W"
        ELSE IF dx = 0 /\ dy = 1 THEN "N"
        ELSE IF dx = 0 /\ dy = -1 THEN "S"
        ELSE "None"

MinPhase == 300
MaxPhase == 800
DensityGain == 500

\* The duration taken as min(8.0, 5.0 * rho), without the base of 3 s
adapt_duration_from_zero(density) ==
    Min(MaxPhase, (DensityGain * density + Scale - 1) \div Scale)

\* Lines 127-129: max(3.0, min(8.0, 3.0 + 5.0 * rho)), as the least whole
\* number of hundredths that is not below it
adapt_duration(density) ==
    Max(MinPhase, Min(MaxPhase, MinPhase + (DensityGain * density + Scale - 1) \div Scale))

\* Lines 130-132: the duration the except branch sets when the density read raises
on_density_error == PHASE_DURATION

\* The toggle test with the clock itself compared with the duration, the time
\* of the last switch forgotten
phase_due_from_start(t, last_switch, duration) == t >= duration

\* The toggle test with > in place of >=
phase_due_after(t, last_switch, duration) == t - last_switch > duration

\* Line 137: now - self.agent._last_switch >= self.agent.phase_duration
phase_due(t, last_switch, duration) == t - last_switch >= duration

\* A request body is <<from, to>>; a body json.loads or the "from"/"to" lookup
\* rejects is <<>>
well_formed(msg) == Len(msg.body) = 2

\* Lines 177-207 with the incident check left out
passage_decision_no_incident(from_pos, to_pos, phase, store, t) ==
    LET d == direction(from_pos, to_pos)
    IN  IF d = "ValueError"
        THEN [granted |-> FALSE, reason |-> "ValueError", store |-> store]
        ELSE IF d = "None"
        THEN [granted |-> FALSE, reason |-> "unknown_direction", store |-> store]
        ELSE [granted |-> d \in ALLOWED_BY_PHASE(phase), reason |-> "phase_check",
              store |-> store]

\* Lines 177-207: the decision on a request of an ordinary vehicle; the
\* is_blocked query sweeps the store
passage_decision(from_pos, to_pos, phase, store, t) ==
    LET d == direction(from_pos, to_pos)
    IN  IF d = "ValueError"
        THEN [granted |-> FALSE, reason |-> "ValueError", store |-> store]
        ELSE IF d = "None"
        THEN [granted |-> FALSE, reason |-> "unknown_direction", store |-> store]
        ELSE IF is_blocked(store, <<from_pos, to_pos>>, BlockThreshold, t)
        THEN [granted |-> FALSE, reason |-> "blocked_by_incident",
              store |-> clear_expired(store, t)]
        ELSE [granted |-> d \in ALLOWED_BY_PHASE(phase), reason |-> "phase_check",
              store |-> clear_expired(store, t)]

\* Lines 153-207 with the priority branch left out
decide_without_priority(msg, phase, store, t) ==
    IF ~well_formed(msg)
    THEN [granted |-> FALSE, reason |-> "invalid_body", store |-> store]
    ELSE passage_decision(msg.body[1], msg.body[2], phase, store, t)

\* Lines 153-207: what the light decides on a message it received; the reason
\* "ValueError" stands for the exception direction() raises out of run
decide(msg, phase, store, t) ==
    IF ~well_formed(msg)
    THEN [granted |-> FALSE, reason |-> "invalid_body", store |-> store]
    ELSE IF msg.type = "priority_request"
    THEN [granted |-> TRUE, reason |-> "emergency", store |-> store]
    ELSE passage_decision(msg.body[1], msg.body[2], phase, store, t)

\* _reply: the passage_reply message
passage_reply(granted, reason) ==
    [type |-> "passage_reply", granted |-> granted, reason |-> reason]

ReceiveTimeout == 10
ReplySleep == 150

(***************************************************************************)
(* agents/vehicle.py and agents/emergency_vehicle.py: the vehicle agents.  *)
(* goal is <<>> (None) or <<node>>; a path is a sequence of nodes.         *)
(***************************************************************************)
Vehicles == {"Vehicle 1", "Vehicle 2"}
Ambulances == {"Ambulance 1", "Ambulance 2"}

\* main: the JID an agent of a given label is started with
agent_jid(label) ==
    CASE label = "Vehicle 1" -> "vehicle1@localhost"
      [] label = "Vehicle 2" -> "vehicle2@localhost"
      [] label = "Ambulance 1" -> "emergency1@localhost"
      [] label = "Ambulance 2" -> "emergency2@localhost"

\* _add_hospitals, in the order of the dict
hospitals == <<<<2, GridH - 2>>, <<GridW - 3, GridH - 3>>, <<GridW \div 2, GridH \div 2>>>>

hospital_positions == {hospitals[i] : i \in 1 .. Len(hospitals)}

Range(s) == {s[i] : i \in 1 .. Len(s)}

ReplanEvery == 10
VehiclePeriod == 150
VehicleFirstSleep == 150
VehicleGoalPause == 300
IncidentTimeout == 1
VehicleReplyTimeout == 80
RetrySleep == 40
DeniedSleep == 50
VehicleFar == 8

EmergencyPeriod == 150
EmergencyFirstSleep == 100
GossipTimeout == 20
EmergencyReplyTimeout == 60
ResendSleep == 30
PauseAtGoal == 300
EmergencyFar == 10

\* asked_at of a vehicle that is not in _wait_for_green
NotAsked == -1

\* VehicleAgent.__init__ at a position, its behaviour started at time 0 and
\* asleep in the first run.  While the vehicle is in _wait_for_green, asked_at
\* is the time of its first request, denials the number of denials received
\* and silent the number of receives in a row that returned nothing
new_vehicle(pos) ==
    [position |-> pos, goal |-> <<>>, path |-> <<>>, steps_since_plan |-> 0,
     pc |-> "first_sleep", wake |-> VehicleFirstSleep, next_activation |-> 0,
     move |-> <<>>, asked_at |-> NotAsked, denials |-> 0, silent |-> 0]

\* EmergencyVehicleAgent.__init__ with fixed_dest = None
new_ambulance(pos) ==
    [position |-> pos, goal |-> <<>>, path |-> <<>>, steps_since_plan |-> 0,
     phase |-> IF pos \in hospital_positions THEN "to_random" ELSE "to_hospital",
     pc |-> "first_sleep", wake |-> EmergencyFirstSleep, next_activation |-> 0,
     move |-> <<>>]

\* _choose_far_goal: the nodes random.choice picks from
far_goals(here, min_manhattan) ==
    LET far == {n \in Nodes : n # here /\ manhattan(n, here) >= min_manhattan}
    IN  IF far # {} THEN far ELSE Nodes \ {here}

\* _closest_hospital: min over the hospitals in dict order, by Manhattan distance
closest_hospital(here) ==
    LET best == CHOOSE i \in 1 .. Len(hospitals) :
                    /\ \A j \in 1 .. Len(hospitals) :
                            manhattan(here, hospitals[i]) <= manhattan(here, hospitals[j])
                    /\ \A j \in 1 .. i - 1 :
                            manhattan(here, hospitals[j]) > manhattan(here, hospitals[i])
    IN  hospitals[best]

\* nx.astar_path on the grid, where _dynamic_weight gives every edge the weight
\* 1.0: one of the paths of least length from a to b
RECURSIVE shortest_paths(_, _)
shortest_paths(a, b) ==
    IF a = b THEN {<<a>>}
    ELSE UNION {{<<a>> \o p : p \in shortest_paths(n, b)} :
                    n \in {m \in neighbors(a) : manhattan(m, b) < manhattan(a, b)}}

\* path[path.index(pos):]
path_from(path, pos) ==
    LET idx == CHOOSE i \in 1 .. Len(path) :
                   path[i] = pos /\ \A j \in 1 .. i - 1 : path[j] # pos
    IN  SubSeq(path, idx, Len(path))

\* The next step taken from the end of the plan: the vehicle would leap to its
\* goal
peek_next_step_to_goal(rec) ==
    LET misaligned == rec.path = <<>> \/ rec.path[1] # rec.position
        path == IF misaligned /\ rec.path # <<>> /\ rec.position \in Range(rec.path)
                THEN path_from(rec.path, rec.position)
                ELSE rec.path
    IN  IF misaligned /\ ~(rec.path # <<>> /\ rec.position \in Range(rec.path))
        THEN [path |-> path, old |-> rec.position, new |-> rec.position]
        ELSE IF Len(path) >= 2
        THEN [path |-> path, old |-> rec.position, new |-> path[Len(path)]]
        ELSE [path |-> path, old |-> rec.position, new |-> rec.position]

\* VehicleAgent._peek_next_step: the path afterwards and the pair returned
peek_next_step(rec) ==
    LET misaligned == rec.path = <<>> \/ rec.path[1] # rec.position
        path == IF misaligned /\ rec.path # <<>> /\ rec.position \in Range(rec.path)
                THEN path_from(rec.path, rec.position)
                ELSE rec.path
    IN  IF misaligned /\ ~(rec.path # <<>> /\ rec.position \in Range(rec.path))
        THEN [path |-> path, old |-> rec.position, new |-> rec.position]
        ELSE IF Len(path) >= 2
        THEN [path |-> path, old |-> rec.position, new |-> path[2]]
        ELSE [path |-> path, old |-> rec.position, new |-> rec.position]

\* VehicleAgent._light_jid_for(node): <<>> (None) or <<the light's node>>
light_jid_for(node) == IF node \in traffic_lights THEN <<node>> ELSE <<>>

\* _nearest_light_jid: min over the lights in dict order, by path length
nearest_light(pos) ==
    CHOOSE l \in traffic_lights :
        \A o \in traffic_lights \ {l} :
            \/ manhattan(pos, l) < manhattan(pos, o)
            \/ manhattan(pos, l) = manhattan(pos, o) /\ NodeLE(l, o)

\* The board never shows anybody on the node
occupied_never(board, label, node) == FALSE

\* Lines 452-455: the board shows another agent on the node
occupied(board, label, node) ==
    \/ \E name \in DOMAIN board.vehicles : name # label /\ board.vehicles[name] = node
    \/ \E name \in DOMAIN board.emergency : name # label /\ board.emergency[name] = node

\* The move given up with the plan kept
vehicle_commit_keep_plan(rec, label, board, target) ==
    IF occupied(board, label, target)
    THEN rec
    ELSE [rec EXCEPT !.position = target,
                     !.path = IF target \in Range(rec.path)
                              THEN path_from(rec.path, target) ELSE <<target>>,
                     !.steps_since_plan = @ + 1]

\* The move made with the path left as it was
vehicle_commit_keep_path(rec, label, board, target) ==
    IF occupied(board, label, target)
    THEN [rec EXCEPT !.path = <<>>, !.goal = <<>>, !.steps_since_plan = 0]
    ELSE [rec EXCEPT !.position = target, !.steps_since_plan = @ + 1]

\* Lines 457-472: the move is given up when the target is occupied, made otherwise
vehicle_commit(rec, label, board, target) ==
    IF occupied(board, label, target)
    THEN [rec EXCEPT !.path = <<>>, !.goal = <<>>, !.steps_since_plan = 0]
    ELSE [rec EXCEPT !.position = target,
                     !.path = IF target \in Range(rec.path)
                              THEN path_from(rec.path, target) ELSE <<target>>,
                     !.steps_since_plan = @ + 1]

\* Occupancy.enter(u, v, vehicle_id): the occupants afterwards
enter(usage, u, v, id) == [usage EXCEPT ![normalize_edge(<<u, v>>)] = @ \cup {id}]

\* Occupancy.leave(u, v, vehicle_id): the occupants afterwards
leave(usage, u, v, id) == [usage EXCEPT ![normalize_edge(<<u, v>>)] = @ \ {id}]

\* Occupancy.leave then Occupancy.enter, as the agents call them on a move
leave_enter(usage, old, new, label) ==
    IF old = new THEN usage
    ELSE LET e == normalize_edge(<<old, new>>)
         IN  [usage EXCEPT ![e] = (@ \ {label}) \cup {label}]

\* PeriodicBehaviour: run has returned; the next run starts one period after
\* the activation of this one, or at once if that is past
end_run(rec, period) ==
    [rec EXCEPT !.pc = "idle", !.next_activation = @ + period,
                !.wake = rec.next_activation + period, !.move = <<>>]

\* The passage_request or priority_request of an agent for a move
request(type, label, old, new) ==
    [type |-> type, body |-> <<old, new>>, sender |-> agent_jid(label)]

\* receive: the mailbox without the message taken, if there was one
taken(boxes, jid) == IF boxes[jid] = <<>> THEN boxes ELSE [boxes EXCEPT ![jid] = Tail(@)]

\* A reply carrying granted = "true"
is_grant(msg) == msg.type = "passage_reply" /\ msg.granted

(***************************************************************************)
(* State.                                                                  *)
(***************************************************************************)
VARIABLES
    now,        \* the clock (time.time(), the event loop's time)
    incidents,  \* EventManager.incidents: normalized edge -> Incident
    query,      \* the EventManager query just made: arguments, the record it met, result
    gossip,     \* the gossip messages just handled, one after the other
    route,      \* the routing call in progress: arguments, blocked segments, result
    light,      \* traffic-light agents: phase, phase_duration, _last_switch, position in run
    mbox,       \* the messages delivered to each agent and not yet received by it
    answered,   \* the request a light has just answered, with its reply
    granted_dirs, \* per light, the directions granted passage since its last phase switch
    smoothed_density, \* Occupancy.smoothed_density: normalized edge -> density
    reporter,   \* the incident reporter's BroadcastBehaviour: "run", or "dead" once run raised
    veh,        \* ordinary vehicles: position, goal, path, ..., position in run
    amb,        \* emergency vehicles: position, goal, path, phase, ..., position in run
    shared,     \* the shared position board: label -> node, for vehicles and emergency
    road_usage, \* Occupancy.road_usage: normalized edge -> labels
    moved,      \* the move an agent has just decided on, with what the board showed
    capacity    \* Occupancy.capacity: normalized edge -> capacity

vars == <<now, incidents, query, gossip, route, light, mbox, answered, granted_dirs,
          smoothed_density, reporter, veh, amb, shared, road_usage, moved, capacity>>

eventVars == <<query, gossip>>
lightVars == <<light, mbox, answered, granted_dirs, smoothed_density, reporter>>
trafficVars == <<veh, amb, shared, road_usage, moved, capacity>>

NoStore == [e \in {} |-> 0]
NoQuery == [op |-> "none"]
NoCall == [fn |-> "none"]
NoAnswer == [op |-> "none"]
NoMove == [op |-> "none"]

\* LightBehaviour.on_start at time t, about to run
started_light(t) ==
    [phase |-> 0, phase_duration |-> PHASE_DURATION, last_switch |-> t,
     pc |-> "run", wake |-> t]

\* Every agent whose behaviour has not started yet
NoLights ==
    /\ light = [l \in {} |-> 0]
    /\ mbox = [a \in {} |-> <<>>]
    /\ answered = NoAnswer
    /\ reporter = "run"
    /\ granted_dirs = [l \in {} |-> {}]
    /\ smoothed_density = [e \in Segments |-> 0]

\* No vehicle agent has been constructed
NoTraffic ==
    /\ veh = [v \in {} |-> 0]
    /\ amb = [a \in {} |-> 0]
    /\ shared = [vehicles |-> [v \in {} |-> 0], emergency |-> [a \in {} |-> 0]]
    /\ road_usage = [e \in Segments |-> {}]
    /\ moved = NoMove
    /\ capacity = [e \in Segments |-> Capacity]

\* What the store holds for an edge: <<>> or <<incident>>
stored(store, edge) ==
    IF normalize_edge(edge) \in DOMAIN store THEN <<store[normalize_edge(edge)]>> ELSE <<>>

(***************************************************************************)
(* The incident store driven by its callers: the incident reporter and the *)
(* roadblock loop spawn, the agents query.                                 *)
(***************************************************************************)
\* Edges the callers name here: those at a traffic light, in both orientations
EventEdges == {e \in DirectedEdges : e[1] \in traffic_lights \/ e[2] \in traffic_lights}

Severities == {1, BlockSeverity}
Ttls == {1, 2}
Thresholds == {BlockThreshold, BlockSeverity}

EvInit ==
    /\ now = 0
    /\ incidents = NoStore
    /\ query = NoQuery
    /\ gossip = <<>>
    /\ route = NoCall
    /\ NoLights
    /\ NoTraffic

\* time passes
Tick ==
    /\ now < MaxTime
    /\ now' = now + 1
    /\ query' = NoQuery
    /\ gossip' = <<>>
    /\ UNCHANGED incidents

\* EventManager.spawn_incident(edge, severity, ttl)
Spawn ==
    \E edge \in EventEdges, severity \in Severities, ttl \in Ttls :
        /\ incidents' = spawn_incident(incidents, edge, severity, ttl, now)
        /\ query' = NoQuery
        /\ UNCHANGED <<now, gossip>>

\* EventManager.is_blocked(edge, threshold)
IsBlocked ==
    \E edge \in EventEdges, threshold \in Thresholds :
        /\ incidents' = clear_expired(incidents, now)
        /\ query' = [op |-> "is_blocked", edge |-> edge, threshold |-> threshold,
                     at |-> now, met |-> stored(incidents, edge),
                     result |-> is_blocked(incidents, edge, threshold, now)]
        /\ UNCHANGED <<now, gossip>>

EvNext == (Tick \/ Spawn \/ IsBlocked) /\ UNCHANGED <<route, lightVars, trafficVars>>

SpecEvents == EvInit /\ [][EvNext]_vars

(***************************************************************************)
(* The two stores called with segments in either orientation; query tells  *)
(* of the last call.                                                       *)
(***************************************************************************)
\* The segments named here: those that run north from a light, either way round
StoreEdges == {e \in EventEdges : e[1][1] = e[2][1]}

\* EventManager.spawn_incident(edge, severity, ttl); met is what the store held
\* for the segment before
SpawnAt ==
    \E edge \in StoreEdges, severity \in Severities, ttl \in Ttls :
        /\ incidents' = spawn_incident(incidents, edge, severity, ttl, now)
        /\ query' = [op |-> "spawn", edge |-> edge, severity |-> severity, ttl |-> ttl,
                     at |-> now, met |-> stored(incidents, edge)]
        /\ UNCHANGED <<now, gossip, road_usage>>

\* time passes
StoreTick ==
    /\ now < MaxTime
    /\ now' = now + 1
    /\ query' = NoQuery
    /\ UNCHANGED <<incidents, gossip, road_usage>>

\* Occupancy.enter(u, v, vehicle_id)
EnterAt ==
    \E edge \in StoreEdges, id \in Vehicles :
        /\ road_usage' = enter(road_usage, edge[1], edge[2], id)
        /\ query' = [op |-> "enter", edge |-> edge, id |-> id]
        /\ UNCHANGED <<now, gossip, incidents>>

\* Occupancy.leave(u, v, vehicle_id)
LeaveAt ==
    \E edge \in StoreEdges, id \in Vehicles :
        /\ road_usage' = leave(road_usage, edge[1], edge[2], id)
        /\ query' = [op |-> "leave", edge |-> edge, id |-> id]
        /\ UNCHANGED <<now, gossip, incidents>>

StoreNext ==
    /\ SpawnAt \/ StoreTick \/ EnterAt \/ LeaveAt
    /\ UNCHANGED <<route, lightVars, veh, amb, shared, moved, capacity>>

SpecStore == EvInit /\ [][StoreNext]_vars

(***************************************************************************)
(* The incident store of an emergency vehicle that handles gossip: the     *)
(* reporter blocks edges, the vehicle handles incident_gossip messages.    *)
(***************************************************************************)
\* The incident facts a gossip message may carry: {edge, severity, expires_at}
Facts ==
    [edge : {e \in EventEdges : e[2] \in traffic_lights},
     severity : {BlockThreshold, BlockSeverity}, expires_at : 1 .. 2]

\* IncidentReporterAgent / random_roadblocks_loop: spawn_temporary_block(edge, ttl)
SpawnBlock ==
    \E edge \in EventEdges, ttl \in Ttls :
        /\ incidents' = spawn_temporary_block(incidents, edge, ttl, now)
        /\ gossip' = <<>>
        /\ UNCHANGED <<now, query>>

\* EmergencyBehaviour.run receives an incident_gossip message and handles it.
\* gossip keeps the last two messages handled with nothing in between; swapped
\* is the store had this message been handled before the previous one
Gossip ==
    \E fact \in Facts :
        LET data == [type |-> "incident_gossip", payload |-> <<fact>>]
            out == on_gossip(incidents, data, now)
            last == gossip[Len(gossip)]
            before == [type |-> "incident_gossip", payload |-> <<last.fact>>]
            entry == [fact |-> fact, pre |-> incidents, post |-> out.store,
                      raised |-> out.raised,
                      swapped |-> IF gossip = <<>> THEN out.store
                                  ELSE on_gossip(on_gossip(last.pre, data, now).store,
                                                 before, now).store]
        IN  /\ incidents' = out.store
            /\ gossip' = IF gossip = <<>> THEN <<entry>> ELSE <<last, entry>>
            /\ UNCHANGED <<now, query>>

GossipNext == (Tick \/ SpawnBlock \/ Gossip) /\ UNCHANGED <<route, lightVars, trafficVars>>

SpecGossip == EvInit /\ [][GossipNext]_vars

(***************************************************************************)
(* The router called on the city while the reporter blocks segments.       *)
(***************************************************************************)
MaxBlocked == 2

\* IncidentReporterAgent: duration = 8.0
BlockTtl == 800

\* The segments the reporter blocks here: those with an end at or next to (0, 0)
RouterEdges == {e \in DirectedEdges : NodeLE(e[1], e[2]) /\ manhattan(e[1], <<0, 0>>) <= 1}

\* The segments an EventManager query reports blocked, in both orientations
BlockedNow(store, t) == {e \in DirectedEdges : is_blocked(store, e, BlockThreshold, t)}

\* The segments an Occupancy query reports full, in both orientations
FullNow ==
    {e \in DirectedEdges : is_full(road_usage, capacity, smoothed_density, e)}

\* The reporter blocks a segment
Block ==
    \E edge \in RouterEdges :
        /\ route = NoCall
        /\ Cardinality(DOMAIN incidents \cup {edge}) <= MaxBlocked
        /\ incidents' = spawn_temporary_block(incidents, edge, BlockTtl, now)
        /\ UNCHANGED <<now, query, gossip, route, lightVars, trafficVars>>

\* astar called with an is_forbidden_fn that asks the store about the edge
AstarCall ==
    \E start \in Nodes, goal \in Nodes, weight \in {ExactWeight, NearOptimalWeight} :
        /\ route = NoCall
        /\ route' = [fn |-> "astar", start |-> start, goal |-> goal, weight |-> weight,
                     ignore_capacity |-> TRUE, blocked |-> BlockedNow(incidents, now),
                     full |-> FullNow,
                     result |-> astar(start, goal, forbidden_by_incident(incidents, now),
                                      weight)]
        /\ UNCHANGED <<now, incidents, query, gossip, lightVars, trafficVars>>

\* route_a_star called on the city's EventManager and Occupancy
RouteCall ==
    \E start \in Nodes, goal \in Nodes, weight \in {ExactWeight, NearOptimalWeight},
       ignore_capacity \in BOOLEAN :
        /\ route = NoCall
        /\ route' = [fn |-> "route_a_star", start |-> start, goal |-> goal,
                     weight |-> weight, ignore_capacity |-> ignore_capacity,
                     blocked |-> BlockedNow(incidents, now), full |-> FullNow,
                     result |-> route_a_star(incidents, start, goal, weight,
                                             ignore_capacity, now)]
        /\ UNCHANGED <<now, incidents, query, gossip, lightVars, trafficVars>>

\* the caller takes the result
Return ==
    /\ route # NoCall
    /\ route' = NoCall
    /\ UNCHANGED <<now, incidents, query, gossip, lightVars, trafficVars>>

RouterNext == Block \/ AstarCall \/ RouteCall \/ Return

SpecRouter == EvInit /\ [][RouterNext]_vars

\* The router called in a city where a segment has filled up: main's first
\* vehicles are on it, and rho has been asked about it JamCalls times since
JamCalls == 7
Jam == {"Vehicle 1", "Vehicle 2", "Vehicle 3", "Vehicle 4", "Vehicle 5"}

\* The smoothed density of a segment filled to its capacity after k calls of rho
RECURSIVE ema_full(_)
ema_full(k) == IF k = 0 THEN 0 ELSE (3 * Scale + 7 * ema_full(k - 1)) \div 10

JamInit ==
    /\ now = 0
    /\ incidents = NoStore
    /\ query = NoQuery
    /\ gossip = <<>>
    /\ route = NoCall
    /\ light = [l \in {} |-> 0]
    /\ mbox = [a \in {} |-> <<>>]
    /\ answered = NoAnswer
    /\ reporter = "run"
    /\ granted_dirs = [l \in {} |-> {}]
    /\ veh = [v \in {} |-> 0]
    /\ amb = [a \in {} |-> 0]
    /\ shared = [vehicles |-> [v \in {} |-> 0], emergency |-> [a \in {} |-> 0]]
    /\ moved = NoMove
    /\ capacity = [e \in Segments |-> Capacity]
    /\ \E jammed \in {{}} \cup {{e} : e \in RouterEdges} :
        /\ road_usage = [e \in Segments |-> IF e \in jammed THEN Jam ELSE {}]
        /\ smoothed_density = [e \in Segments |->
                                  IF e \in jammed THEN ema_full(JamCalls) ELSE 0]

JamNext == Block \/ RouteCall \/ Return

SpecJam == JamInit /\ [][JamNext]_vars

(***************************************************************************)
(* The traffic lights answering requests.  Ordinary and emergency vehicles *)
(* send requests at any moment; the reporter and the roadblock loop block  *)
(* segments at their instants.                                             *)
(***************************************************************************)
HorizonLight == 320

\* random_roadblocks_loop: interval = 3.0
RoadblockInterval == 300

\* The positions requests name here: the lights and the nodes next to them
LightArea == {n \in Nodes : \E l \in traffic_lights : manhattan(n, l) <= 1}

\* The requests a light may find in its mailbox
Requests ==
    [type : {"passage_request", "priority_request"},
     body : {b \in LightArea \X LightArea :
                b[1] \in traffic_lights \/ b[2] \in traffic_lights} \cup {<<>>},
     sender : {"peer@localhost"}]

\* The JID of the light at node l: light_<x>_<y>@localhost
light_jid(l) == "light_" \o ToString(l[1]) \o "_" \o ToString(l[2]) \o "@localhost"

\* Message delivery: the message joins the mailbox of an agent of the model
deliver(boxes, to, msg) ==
    IF to \in DOMAIN boxes THEN [boxes EXCEPT ![to] = Append(@, msg)] ELSE boxes

LightInit ==
    /\ now = 0
    /\ incidents = NoStore
    /\ query = NoQuery
    /\ gossip = <<>>
    /\ route = NoCall
    /\ light = [l \in traffic_lights |-> started_light(0)]
    /\ mbox = [j \in {light_jid(l) : l \in traffic_lights} |-> <<>>]
    /\ answered = NoAnswer
    /\ reporter = "run"
    /\ granted_dirs = [l \in traffic_lights |-> {}]
    /\ smoothed_density = [e \in Segments |-> 0]
    /\ NoTraffic

\* A light has something to do at this instant
light_ready(l) ==
    \/ light[l].pc = "run"
    \/ light[l].pc = "receive" /\ mbox[light_jid(l)] # <<>>
    \/ light[l].pc # "dead" /\ light[l].wake <= now

\* The instants at which the timers of the running lights fire
light_wakes == {light[l].wake : l \in {x \in traffic_lights : light[x].pc # "dead"}}

\* LightBehaviour.run is called, for the first time or because the run before
\* has returned (receive timed out, or the sleep of _reply is over): adapt the
\* duration to the local density, toggle the phase when the duration has
\* passed, await receive(timeout=0.1)
LightRun(l) ==
    /\ \/ light[l].pc = "run"
       \/ light[l].pc = "receive" /\ mbox[light_jid(l)] = <<>> /\ light[l].wake <= now
       \/ light[l].pc = "sleep" /\ light[l].wake <= now
    /\ LET read == local_density(road_usage, capacity, smoothed_density, l, DensityRadius)
           duration == adapt_duration(read.value)
           due == phase_due(now, light[l].last_switch, duration)
       IN  /\ light' = [light EXCEPT ![l].phase_duration = duration,
                                     ![l].phase = IF due THEN 1 - @ ELSE @,
                                     ![l].last_switch = IF due THEN now ELSE @,
                                     ![l].pc = "receive",
                                     ![l].wake = now + ReceiveTimeout]
           /\ granted_dirs' = IF due THEN [granted_dirs EXCEPT ![l] = {}] ELSE granted_dirs
           /\ smoothed_density' = read.smoothed
    /\ UNCHANGED <<now, incidents, mbox, answered>>

\* receive returned a message: decide, reply, sleep 1.5 s inside _reply. An
\* exception of direction() leaves run before _reply is reached, and the
\* behaviour whose run raised is not scheduled again
LightHandle(l) ==
    /\ light[l].pc = "receive"
    /\ mbox[light_jid(l)] # <<>>
    /\ LET msg == Head(mbox[light_jid(l)])
           out == decide(msg, light[l].phase, incidents, now)
           passage == well_formed(msg) /\ msg.type # "priority_request"
           raised == out.reason = "ValueError"
       IN  /\ incidents' = out.store
           /\ mbox' = IF raised
                      THEN [mbox EXCEPT ![light_jid(l)] = Tail(@)]
                      ELSE deliver([mbox EXCEPT ![light_jid(l)] = Tail(@)], msg.sender,
                                   passage_reply(out.granted, out.reason))
           /\ light' = IF raised
                       THEN [light EXCEPT ![l].pc = "dead"]
                       ELSE [light EXCEPT ![l].pc = "sleep", ![l].wake = now + ReplySleep]
           /\ answered' = [op |-> IF raised THEN "raised" ELSE "reply",
                           light |-> l, type |-> msg.type,
                           body |-> msg.body, phase |-> light[l].phase,
                           blocked |-> /\ well_formed(msg)
                                       /\ is_blocked(incidents, msg.body, BlockThreshold, now),
                           granted |-> out.granted, reason |-> out.reason]
           /\ granted_dirs' =
                IF passage /\ out.granted
                THEN [granted_dirs EXCEPT
                         ![l] = @ \cup {direction(msg.body[1], msg.body[2])}]
                ELSE granted_dirs
    /\ UNCHANGED <<now, smoothed_density>>

\* A vehicle's send reaches the light, once the light has taken the request before
request_from(msgs) ==
    \E l \in traffic_lights, msg \in msgs :
        /\ mbox[light_jid(l)] = <<>>
        /\ mbox' = deliver(mbox, light_jid(l), msg)
        /\ answered' = NoAnswer
        /\ UNCHANGED <<now, incidents, light, granted_dirs, smoothed_density>>

Request == request_from(Requests)

\* BroadcastBehaviour(period=8)
ReporterPeriod == 800

\* CityEnvironment.__init__: the attributes a city object has
city_attributes ==
    {"width", "height", "graph", "traffic_lights", "hospitals", "vehicle_jids",
     "occupancy", "event_manager", "metrics"}

\* main: city.vehicle_jids holds the JIDs of the ordinary vehicles
vehicle_jids == {agent_jid(v) : v \in Vehicles}

\* The reporter's message: type incident_gossip, hop_ttl 4, the payload
HopTtl == 4

incident_gossip(edge, t) ==
    [type |-> "incident_gossip", hop_ttl |-> HopTtl,
     payload |-> [edge |-> edge, severity |-> BlockSeverity, expires_at |-> t + BlockTtl]]

RECURSIVE send_all(_, _, _)
send_all(boxes, to, msg) ==
    IF to = {} THEN boxes
    ELSE LET r == CHOOSE x \in to : TRUE
         IN  send_all(deliver(boxes, r, msg), to \ {r}, msg)

\* IncidentReporterAgent.BroadcastBehaviour.run when random.random() < 0.4:
\* spawn_temporary_block(edge, ttl=8.0) on an edge picked at random, then the
\* gossip to list(city.vehicle_jids) + list(city.traffic_light_jids); reading
\* an attribute the city does not have raises AttributeError before any send,
\* and the behaviour whose run raised is not run again
Report ==
    \E edge \in EventEdges :
        LET raised == "traffic_light_jids" \notin city_attributes
            recipients == vehicle_jids \cup {light_jid(l) : l \in traffic_lights}
        IN  /\ reporter = "run"
            /\ now % ReporterPeriod = 0
            /\ incidents' = spawn_temporary_block(incidents, edge, BlockTtl, now)
            /\ mbox' = IF raised THEN mbox
                       ELSE send_all(mbox, recipients, incident_gossip(edge, now))
            /\ reporter' = IF raised THEN "dead" ELSE "run"
            /\ answered' = [op |-> "report", edge |-> edge,
                            sent |-> IF raised THEN {} ELSE recipients]
            /\ UNCHANGED <<now, light, granted_dirs, smoothed_density>>

\* random_roadblocks_loop, every 3 s: spawn_temporary_block(edge, ttl=8.0) on
\* edges picked among those that are not blocked
Roadblock ==
    \E edge \in EventEdges :
        /\ now > 0
        /\ now % RoadblockInterval = 0
        /\ ~is_blocked(incidents, edge, BlockThreshold, now)
        /\ incidents' = spawn_temporary_block(incidents, edge, BlockTtl, now)
        /\ answered' = NoAnswer
        /\ UNCHANGED <<now, light, mbox, granted_dirs, smoothed_density>>

\* The next instant after t at which a loop of the given period runs
next_run(t, period) == (t \div period + 1) * period

SetMin(S) == CHOOSE m \in S : \A o \in S : m <= o

\* The clock moves to the next instant at which a timer fires
LightAdvance ==
    /\ \A l \in traffic_lights : ~light_ready(l)
    /\ now' = SetMin(light_wakes
                     \cup {next_run(now, RoadblockInterval), next_run(now, ReporterPeriod)})
    /\ now' <= HorizonLight
    /\ answered' = NoAnswer
    /\ UNCHANGED <<incidents, light, mbox, granted_dirs, smoothed_density>>

LightNext ==
    /\ \/ Report
       \/ /\ \/ \E l \in traffic_lights : LightRun(l)
             \/ \E l \in traffic_lights : LightHandle(l)
             \/ Request
             \/ Roadblock
             \/ LightAdvance
          /\ UNCHANGED reporter
    /\ UNCHANGED <<eventVars, route, trafficVars>>

SpecLight == LightInit /\ [][LightNext]_vars

(***************************************************************************)
(* The light and any sender: besides the moves along one road, a message   *)
(* may name a diagonal, a two-cell or a zero move, carry a body json.loads *)
(* rejects, or carry "from"/"to" lists that are not pairs.                 *)
(***************************************************************************)
\* A "from" list of three numbers: tuple(payload["from"]) accepts it
NotANode == <<0, 0, 0>>

AnyBodies ==
    UNION {{<<l, <<l[1] + 1, l[2]>>>>, <<l, <<l[1], l[2] + 1>>>>, <<<<l[1] + 1, l[2]>>, l>>,
            <<l, l>>, <<<<l[1] + 1, l[2] + 1>>, l>>, <<<<l[1], l[2] + 2>>, l>>,
            <<NotANode, l>>} : l \in traffic_lights} \cup {<<>>}

AnyRequests ==
    [type : {"passage_request", "priority_request"}, body : AnyBodies,
     sender : {"peer@localhost"}]

AnyRequest == request_from(AnyRequests)

MailNext ==
    /\ \/ \E l \in traffic_lights : LightRun(l)
       \/ \E l \in traffic_lights : LightHandle(l)
       \/ AnyRequest
       \/ Roadblock
       \/ LightAdvance
    /\ UNCHANGED <<eventVars, route, trafficVars, reporter>>

SpecMail == LightInit /\ [][MailNext]_vars

(***************************************************************************)
(* The Occupancy object driven by its callers: agents enter and leave      *)
(* edges, capacities are set, densities are asked for.                     *)
(***************************************************************************)
MaxDensityCalls == 2

\* The edges the callers name here
OccEdges == {normalize_edge(e) : e \in EventEdges}

\* The values set_capacity is called with here
CapacityValues == {0, 1}

OccInit ==
    /\ now = 0
    /\ incidents = NoStore
    /\ query = [op |-> "none", calls |-> 0]
    /\ gossip = <<>>
    /\ route = NoCall
    /\ NoLights
    /\ NoTraffic

\* Occupancy.enter(u, v, vehicle_id)
Enter ==
    \E edge \in OccEdges, id \in Vehicles :
        /\ road_usage' = [road_usage EXCEPT ![edge] = @ \cup {id}]
        /\ UNCHANGED <<capacity, smoothed_density, query>>

\* Occupancy.leave(u, v, vehicle_id)
Leave ==
    \E edge \in OccEdges, id \in Vehicles :
        /\ road_usage' = [road_usage EXCEPT ![edge] = @ \ {id}]
        /\ UNCHANGED <<capacity, smoothed_density, query>>

\* Occupancy.set_capacity(u, v, cap)
SetCapacity ==
    \E edge \in OccEdges, cap \in CapacityValues :
        /\ capacity' = set_capacity(capacity, edge, cap)
        /\ UNCHANGED <<road_usage, smoothed_density, query>>

\* Occupancy.rho(edge): the value is returned and stored
Rho ==
    \E edge \in OccEdges :
        /\ query.calls < MaxDensityCalls
        /\ smoothed_density' =
              [smoothed_density EXCEPT
                  ![edge] = rho(road_usage, capacity, smoothed_density, edge)]
        /\ query' = [op |-> "rho", edge |-> edge, calls |-> query.calls + 1,
                     result |-> rho(road_usage, capacity, smoothed_density, edge)]
        /\ UNCHANGED <<road_usage, capacity>>

\* Occupancy.local_density(position, radius) as the lights call it
LocalDensity ==
    \E l \in traffic_lights :
        LET read == local_density(road_usage, capacity, smoothed_density, l, DensityRadius)
        IN  /\ query.calls < MaxDensityCalls
            /\ smoothed_density' = read.smoothed
            /\ query' = [op |-> "local_density", edge |-> <<l, l>>,
                         calls |-> query.calls + 1, result |-> read.value]
            /\ UNCHANGED <<road_usage, capacity>>

OccNext ==
    /\ Enter \/ Leave \/ SetCapacity \/ Rho \/ LocalDensity
    /\ UNCHANGED <<now, incidents, gossip, route, light, mbox, answered, granted_dirs,
                   reporter, veh, amb, shared, moved>>

SpecOccupancy == OccInit /\ [][OccNext]_vars

(***************************************************************************)
(* The vehicles and the emergency vehicles driving in the city, with the   *)
(* traffic lights and the roadblocks.                                      *)
(***************************************************************************)
HorizonTraffic == 470

\* The nodes random.choice gives a vehicle for its initial position here: the
\* neighbours of the lights
StartNodes == {n \in Nodes : \E l \in traffic_lights : manhattan(n, l) = 1}

\* The nodes random.choice gives an ambulance for its initial position here:
\* one or two steps north of a light
EmergencyStartNodes ==
    {n \in Nodes : \E l \in traffic_lights : n[1] = l[1] /\ n[2] - l[2] \in {1, 2}}

\* The nodes random.choice gives an agent for a goal here
GoalSample == {n \in Nodes : n[1] <= 1 /\ n[2] <= 1}

\* The board shows another agent on the node
held_by_other(board, label, node) ==
    \/ \E name \in DOMAIN board.vehicles : name # label /\ board.vehicles[name] = node
    \/ \E name \in DOMAIN board.emergency : name # label /\ board.emergency[name] = node

\* An agent whose behaviour has started at time t
started_at(rec, t) == [rec EXCEPT !.wake = @ + t, !.next_activation = @ + t]

\* The city with the given vehicles and ambulances constructed, at the time
\* main creates the task of the roadblock loop (time 0): asyncio.gather has
\* started every agent before, here all at time t <= 0.  random.choice has
\* given the vehicles their positions among vnodes, the ambulances among anodes
TrafficInitFrom(vs, as, t, vnodes, anodes) ==
    /\ now = 0
    /\ incidents = NoStore
    /\ query = NoQuery
    /\ gossip = <<>>
    /\ route = NoCall
    /\ light = [l \in traffic_lights |-> started_light(t)]
    /\ mbox = [j \in {light_jid(l) : l \in traffic_lights}
                     \cup {agent_jid(x) : x \in vs \cup as} |-> <<>>]
    /\ answered = NoAnswer
    /\ reporter = "run"
    /\ granted_dirs = [l \in traffic_lights |-> {}]
    /\ smoothed_density = [e \in Segments |-> 0]
    /\ \E vpos \in [vs -> vnodes], apos \in [as -> anodes] :
        /\ veh = [v \in vs |-> started_at(new_vehicle(vpos[v]), t)]
        /\ amb = [a \in as |-> started_at(new_ambulance(apos[a]), t)]
        /\ shared = [vehicles |-> vpos, emergency |-> apos]
    /\ road_usage = [e \in Segments |-> {}]
    /\ moved = NoMove
    /\ capacity = [e \in Segments |-> Capacity]

TrafficInitAt(vs, as, t) == TrafficInitFrom(vs, as, t, StartNodes, EmergencyStartNodes)

\* The same when the agents have started at the very time the loop begins
TrafficInit(vs, as) == TrafficInitAt(vs, as, 0)

\* Lines 436-441: the vehicle as it is after planning, when it has to plan
vehicle_plans(rec) ==
    IF ~(rec.path = <<>> \/ rec.goal = <<>> \/ rec.steps_since_plan >= ReplanEvery)
    THEN {rec}
    ELSE LET goals == IF rec.goal = <<>>
                      THEN far_goals(rec.position, VehicleFar) \cap GoalSample
                      ELSE {rec.goal[1]}
         IN  UNION {{[rec EXCEPT !.goal = <<g>>, !.path = p, !.steps_since_plan = 0] :
                        p \in shortest_paths(rec.position, g)} : g \in goals}

\* The end of the tick with the write of line 492 left out: the board keeps
\* the position the vehicle had
VehicleFinish_board_kept(v, rec, target, random) ==
    LET after == IF random THEN [rec EXCEPT !.position = target]
                 ELSE vehicle_commit(rec, v, shared, target)
    IN  /\ veh' = [veh EXCEPT ![v] = end_run([after EXCEPT !.asked_at = NotAsked,
                                                          !.denials = 0, !.silent = 0],
                                                   VehiclePeriod)]
        /\ road_usage' = leave_enter(road_usage, rec.position, after.position, v)
        /\ shared' = shared
        /\ moved' = [op |-> "move", agent |-> v, from |-> rec.position, to |-> target,
                     held |-> held_by_other(shared, v, target),
                     done |-> after.position = target, random |-> random,
                     refused |-> FALSE,
                     granted |-> rec.pc = "await_reply",
                     permitted |-> target \in traffic_lights =>
                                       direction(rec.position, target)
                                           \in ALLOWED_BY_PHASE(light[target].phase),
                     blocked |-> is_blocked(incidents, <<rec.position, target>>,
                                            BlockThreshold, now)]

\* Lines 450-494 of VehicleBehaviour.run, after _wait_for_green has returned
\* (or _move_randomly for a vehicle without a plan): collision check, move,
\* occupancy, board; run returns.  The record moved tells of the step: granted
\* when it follows a granted reply, permitted when the phase of the light on
\* the target admits its direction at this moment, blocked when its segment is
\* blocked at this moment
VehicleFinish(v, rec, target, random) ==
    LET after == IF random THEN [rec EXCEPT !.position = target]
                 ELSE vehicle_commit(rec, v, shared, target)
    IN  /\ veh' = [veh EXCEPT ![v] = end_run([after EXCEPT !.asked_at = NotAsked,
                                                          !.denials = 0, !.silent = 0],
                                                   VehiclePeriod)]
        /\ road_usage' = leave_enter(road_usage, rec.position, after.position, v)
        /\ shared' = [shared EXCEPT !.vehicles[v] = after.position]
        /\ moved' = [op |-> "move", agent |-> v, from |-> rec.position, to |-> target,
                     held |-> held_by_other(shared, v, target),
                     done |-> after.position = target, random |-> random,
                     refused |-> FALSE,
                     granted |-> rec.pc = "await_reply",
                     permitted |-> target \in traffic_lights =>
                                       direction(rec.position, target)
                                           \in ALLOWED_BY_PHASE(light[target].phase),
                     blocked |-> is_blocked(incidents, <<rec.position, target>>,
                                            BlockThreshold, now)]

\* VehicleBehaviour.run begins (after the first run's sleep): arrival check
VehicleBegin(v) ==
    /\ veh[v].pc \in {"first_sleep", "idle"}
    /\ now >= veh[v].wake
    /\ LET rec == veh[v]
           at_goal == rec.goal # <<>> /\ rec.position = rec.goal[1]
           singleton_here == Len(rec.path) = 1 /\ rec.path[1] = rec.position
       IN  veh' = [veh EXCEPT ![v] =
                      IF at_goal \/ singleton_here
                      THEN [rec EXCEPT !.pc = "pause", !.wake = now + VehicleGoalPause]
                      ELSE [rec EXCEPT !.pc = "incident_recv",
                                       !.wake = now + IncidentTimeout]]
    /\ UNCHANGED <<now, incidents, lightVars, amb, shared, road_usage, moved>>

\* The pause at the goal is over: goal and path are cleared, run returns
VehiclePauseEnd(v) ==
    /\ veh[v].pc = "pause"
    /\ now >= veh[v].wake
    /\ veh' = [veh EXCEPT ![v] =
                  end_run([veh[v] EXCEPT !.goal = <<>>, !.path = <<>>,
                                         !.steps_since_plan = 0], VehiclePeriod)]
    /\ UNCHANGED <<now, incidents, lightVars, amb, shared, road_usage, moved>>

\* receive(timeout=0.01) has returned: plan if needed, peek the next step, ask
\* the light of the target node or, when it has none, move at once
VehicleTick(v) ==
    /\ veh[v].pc = "incident_recv"
    /\ mbox[agent_jid(v)] # <<>> \/ now >= veh[v].wake
    /\ \E planned \in vehicle_plans(veh[v]) :
        LET pk == peek_next_step(planned)
            rec == [planned EXCEPT !.path = pk.path]
            degenerate == planned.path = <<>> \/ pk.old = pk.new
        IN  \E nb \in (IF degenerate THEN neighbors(rec.position) ELSE {pk.new}) :
                IF degenerate \/ light_jid_for(nb) = <<>>
                THEN /\ VehicleFinish(v, rec, nb, degenerate)
                     /\ mbox' = taken(mbox, agent_jid(v))
                ELSE /\ veh' = [veh EXCEPT ![v] =
                                  [rec EXCEPT !.pc = "await_reply",
                                              !.wake = now + VehicleReplyTimeout,
                                              !.move = <<pk.old, nb>>,
                                              !.asked_at = now]]
                     /\ mbox' = deliver(taken(mbox, agent_jid(v)), light_jid(nb),
                                        request("passage_request", v, pk.old, nb))
                     /\ UNCHANGED <<shared, road_usage, moved>>
    /\ UNCHANGED <<now, incidents, light, answered, granted_dirs, smoothed_density, amb>>

\* _wait_for_green received a message: on a grant the move is decided at
\* once, otherwise the vehicle sleeps 0.5 s before asking again
VehicleReply(v) ==
    /\ veh[v].pc = "await_reply"
    /\ mbox[agent_jid(v)] # <<>>
    /\ mbox' = taken(mbox, agent_jid(v))
    /\ IF is_grant(Head(mbox[agent_jid(v)]))
       THEN VehicleFinish(v, veh[v], veh[v].move[2], FALSE)
       ELSE /\ veh' = [veh EXCEPT ![v].pc = "denied_sleep", ![v].wake = now + DeniedSleep,
                               ![v].denials = @ + 1, ![v].silent = 0]
            /\ UNCHANGED <<shared, road_usage, moved>>
    /\ UNCHANGED <<now, incidents, light, answered, granted_dirs, smoothed_density, amb>>

\* _wait_for_green received nothing in 0.8 s: sleep 0.4 s before asking again
VehicleTimeout(v) ==
    /\ veh[v].pc = "await_reply"
    /\ mbox[agent_jid(v)] = <<>>
    /\ now >= veh[v].wake
    /\ veh' = [veh EXCEPT ![v].pc = "retry_sleep", ![v].wake = now + RetrySleep,
                          ![v].silent = @ + 1]
    /\ UNCHANGED <<now, incidents, lightVars, amb, shared, road_usage, moved>>

\* the while loop of _wait_for_green sends the request again
VehicleResend(v) ==
    /\ veh[v].pc \in {"retry_sleep", "denied_sleep"}
    /\ now >= veh[v].wake
    /\ veh' = [veh EXCEPT ![v].pc = "await_reply", ![v].wake = now + VehicleReplyTimeout]
    /\ mbox' = deliver(mbox, light_jid(veh[v].move[2]),
                       request("passage_request", v, veh[v].move[1], veh[v].move[2]))
    /\ UNCHANGED <<now, incidents, light, answered, granted_dirs, smoothed_density, amb, shared,
                   road_usage, moved>>

\* Lines 381-416: the ambulance as it is after planning, when it has to plan
ambulance_plans(rec) ==
    IF ~(rec.path = <<>> \/ rec.goal = <<>>)
    THEN {rec}
    ELSE LET dests == IF rec.phase = "to_hospital"
                      THEN {closest_hospital(rec.position)}
                      ELSE far_goals(rec.position, EmergencyFar) \cap GoalSample
         IN  UNION {{[rec EXCEPT !.goal = <<g>>, !.path = p, !.steps_since_plan = 0] :
                        p \in shortest_paths(rec.position, g)} : g \in dests}

\* The step along the path is never held back by a block
step_blocked_never(store, curr, nxt, t) == FALSE

\* Lines 227-236, the blocked edge check of _step_along_path
step_blocked(store, curr, nxt, t) == is_blocked(store, <<curr, nxt>>, BlockThreshold, t)

\* EmergencyVehicleAgent._step_along_path at time t; nb is the neighbour
\* random.choice gives _move_randomly.  The is_blocked query sweeps the store.
\* random tells that the step was a random one, refused that the blocked edge
\* check has held the ambulance back
step_along_path(rec, store, t, nb) ==
    LET misaligned == rec.path = <<>> \/ rec.path[1] # rec.position
        inside == rec.path # <<>> /\ rec.position \in Range(rec.path)
        path == IF misaligned /\ inside THEN path_from(rec.path, rec.position)
                ELSE rec.path
    IN  IF misaligned /\ ~inside
        THEN [rec |-> [rec EXCEPT !.position = nb], old |-> rec.position, new |-> nb,
              store |-> store, random |-> TRUE, refused |-> FALSE]
        ELSE IF Len(path) >= 2
        THEN IF step_blocked(store, path[1], path[2], t)
             THEN [rec |-> [rec EXCEPT !.path = <<>>, !.goal = <<>>],
                   old |-> rec.position, new |-> rec.position,
                   store |-> clear_expired(store, t), random |-> FALSE, refused |-> TRUE]
             ELSE [rec |-> [rec EXCEPT !.position = path[2], !.path = Tail(path),
                                       !.steps_since_plan = @ + 1],
                   old |-> rec.position, new |-> path[2],
                   store |-> clear_expired(store, t), random |-> FALSE, refused |-> FALSE]
        ELSE [rec |-> [rec EXCEPT !.path = path], old |-> rec.position,
              new |-> rec.position, store |-> store, random |-> FALSE, refused |-> FALSE]

\* Lines 432-444: the move has to be undone
must_block(board, label, new_pos) ==
    \/ \E name \in DOMAIN board.vehicles : board.vehicles[name] = new_pos
    \/ /\ \E name \in DOMAIN board.emergency :
                name # label /\ board.emergency[name] = new_pos
       /\ new_pos \notin hospital_positions

\* EmergencyBehaviour.run begins (after the first run's sleep): receive(timeout=0.2)
AmbulanceBegin(a) ==
    /\ amb[a].pc \in {"first_sleep", "idle"}
    /\ now >= amb[a].wake
    /\ amb' = [amb EXCEPT ![a].pc = "gossip_recv", ![a].wake = now + GossipTimeout]
    /\ UNCHANGED <<now, incidents, lightVars, veh, shared, road_usage, moved>>

\* receive(timeout=0.2) has returned: handle gossip, arrival check, plan, step,
\* collision check, occupancy, board, priority_request to the nearest light
AmbulanceTick(a) ==
    /\ amb[a].pc = "gossip_recv"
    /\ mbox[agent_jid(a)] # <<>> \/ now >= amb[a].wake
    /\ LET rec == amb[a]
           store == IF mbox[agent_jid(a)] = <<>> THEN incidents
                    ELSE on_gossip(incidents, Head(mbox[agent_jid(a)]), now).store
           at_goal == rec.goal # <<>> /\ rec.position = rec.goal[1]
           singleton_here == Len(rec.path) = 1 /\ rec.path[1] = rec.position
       IN  IF at_goal \/ singleton_here
           THEN /\ amb' = [amb EXCEPT ![a].pc = "pause", ![a].wake = now + PauseAtGoal]
                /\ mbox' = taken(mbox, agent_jid(a))
                /\ incidents' = store
                /\ UNCHANGED <<shared, road_usage, moved>>
           ELSE \E planned \in ambulance_plans(rec) :
                \E nb \in (IF planned.path = <<>> THEN neighbors(rec.position)
                           ELSE {rec.position}) :
                    LET st == step_along_path(planned, store, now, nb)
                        undo == must_block(shared, a, st.new)
                        after == IF undo
                                 THEN [st.rec EXCEPT !.position = st.old, !.path = <<>>,
                                                     !.goal = <<>>, !.steps_since_plan = 0]
                                 ELSE st.rec
                    IN  /\ incidents' = st.store
                        /\ road_usage' = leave_enter(road_usage, st.old, after.position, a)
                        /\ shared' = [shared EXCEPT !.emergency[a] = after.position]
                        /\ mbox' = deliver(taken(mbox, agent_jid(a)),
                                           light_jid(nearest_light(after.position)),
                                           request("priority_request", a, st.old,
                                                   after.position))
                        /\ amb' = [amb EXCEPT ![a] =
                                      [after EXCEPT !.pc = "await_reply",
                                                    !.wake = now + EmergencyReplyTimeout,
                                                    !.move = <<st.old, after.position>>]]
                        /\ moved' = [op |-> "move", agent |-> a, from |-> st.old,
                                     to |-> st.new,
                                     held |-> held_by_other(shared, a, st.new),
                                     done |-> after.position = st.new,
                                     random |-> st.random, refused |-> st.refused,
                                     granted |-> FALSE,
                                     permitted |-> st.new \in traffic_lights =>
                                         direction(st.old, st.new)
                                             \in ALLOWED_BY_PHASE(light[st.new].phase),
                                     blocked |-> is_blocked(store, <<st.old, st.new>>,
                                                            BlockThreshold, now)]
    /\ UNCHANGED <<now, light, answered, granted_dirs, smoothed_density, veh>>

\* The pause at the goal is over: the phase is set from where the ambulance
\* stands, goal and path are cleared, run returns
AmbulancePauseEnd(a) ==
    /\ amb[a].pc = "pause"
    /\ now >= amb[a].wake
    /\ amb' = [amb EXCEPT ![a] =
                  end_run([amb[a] EXCEPT
                              !.phase = IF amb[a].position \in hospital_positions
                                        THEN "to_random" ELSE "to_hospital",
                              !.goal = <<>>, !.path = <<>>, !.steps_since_plan = 0],
                          EmergencyPeriod)]
    /\ UNCHANGED <<now, incidents, lightVars, veh, shared, road_usage, moved>>

\* receive(timeout=0.6) returned a message, on the first or the second wait:
\* run returns
AmbulanceReply(a) ==
    /\ amb[a].pc \in {"await_reply", "await_resent"}
    /\ mbox[agent_jid(a)] # <<>>
    /\ mbox' = taken(mbox, agent_jid(a))
    /\ amb' = [amb EXCEPT ![a] = end_run(amb[a], EmergencyPeriod)]
    /\ UNCHANGED <<now, incidents, light, answered, granted_dirs, smoothed_density, veh, shared,
                   road_usage, moved>>

\* the first receive(timeout=0.6) returned nothing: sleep 0.3 s
AmbulanceTimeout(a) ==
    /\ amb[a].pc = "await_reply"
    /\ mbox[agent_jid(a)] = <<>>
    /\ now >= amb[a].wake
    /\ amb' = [amb EXCEPT ![a].pc = "resend_sleep", ![a].wake = now + ResendSleep]
    /\ UNCHANGED <<now, incidents, lightVars, veh, shared, road_usage, moved>>

\* the request is sent a second time
AmbulanceResend(a) ==
    /\ amb[a].pc = "resend_sleep"
    /\ now >= amb[a].wake
    /\ amb' = [amb EXCEPT ![a].pc = "await_resent",
                          ![a].wake = now + EmergencyReplyTimeout]
    /\ mbox' = deliver(mbox, light_jid(nearest_light(amb[a].position)),
                       request("priority_request", a, amb[a].move[1], amb[a].move[2]))
    /\ UNCHANGED <<now, incidents, light, answered, granted_dirs, smoothed_density, veh, shared,
                   road_usage, moved>>

\* the second receive(timeout=0.6) returned nothing either: run returns
AmbulanceGiveUp(a) ==
    /\ amb[a].pc = "await_resent"
    /\ mbox[agent_jid(a)] = <<>>
    /\ now >= amb[a].wake
    /\ amb' = [amb EXCEPT ![a] = end_run(amb[a], EmergencyPeriod)]
    /\ UNCHANGED <<now, incidents, lightVars, veh, shared, road_usage, moved>>

\* An agent has something to do at this instant: its timer has fired, or it
\* waits in receive and its mailbox holds a message
agent_ready(rec, jid) ==
    \/ rec.wake <= now
    \/ /\ rec.pc \in {"incident_recv", "gossip_recv", "await_reply", "await_resent"}
       /\ mbox[jid] # <<>>

\* The clock moves to the next instant at which a timer fires, up to a horizon
advance(horizon) ==
    /\ \A l \in traffic_lights : ~light_ready(l)
    /\ \A v \in DOMAIN veh : ~agent_ready(veh[v], agent_jid(v))
    /\ \A a \in DOMAIN amb : ~agent_ready(amb[a], agent_jid(a))
    /\ now' = SetMin(light_wakes
                     \cup {veh[v].wake : v \in DOMAIN veh}
                     \cup {amb[a].wake : a \in DOMAIN amb}
                     \cup {next_run(now, RoadblockInterval)})
    /\ now' <= horizon
    /\ answered' = NoAnswer
    /\ moved' = NoMove
    /\ UNCHANGED <<incidents, light, mbox, granted_dirs, smoothed_density, veh, amb,
                   shared, road_usage>>

TrafficAdvance == advance(HorizonTraffic)

\* The lights and the roadblocks, which leave the vehicles alone
LightsAndRoadblocks ==
    /\ \/ \E l \in traffic_lights : LightRun(l)
       \/ \E l \in traffic_lights : LightHandle(l)
       \/ Roadblock
    /\ UNCHANGED trafficVars

VehiclesNext ==
    \/ \E v \in DOMAIN veh : VehicleBegin(v)
    \/ \E v \in DOMAIN veh : VehiclePauseEnd(v)
    \/ \E v \in DOMAIN veh : VehicleTick(v)
    \/ \E v \in DOMAIN veh : VehicleReply(v)
    \/ \E v \in DOMAIN veh : VehicleTimeout(v)
    \/ \E v \in DOMAIN veh : VehicleResend(v)

AmbulancesNext ==
    \/ \E a \in DOMAIN amb : AmbulanceBegin(a)
    \/ \E a \in DOMAIN amb : AmbulanceTick(a)
    \/ \E a \in DOMAIN amb : AmbulancePauseEnd(a)
    \/ \E a \in DOMAIN amb : AmbulanceReply(a)
    \/ \E a \in DOMAIN amb : AmbulanceTimeout(a)
    \/ \E a \in DOMAIN amb : AmbulanceResend(a)
    \/ \E a \in DOMAIN amb : AmbulanceGiveUp(a)

TrafficNext ==
    /\ LightsAndRoadblocks \/ VehiclesNext \/ AmbulancesNext \/ TrafficAdvance
    /\ UNCHANGED <<eventVars, route, capacity, reporter>>

SpecTraffic == TrafficInit(Vehicles, {"Ambulance 1"}) /\ [][TrafficNext]_vars

\* The emergency vehicles alone with the lights
PriorityNext ==
    /\ LightsAndRoadblocks \/ AmbulancesNext \/ TrafficAdvance
    /\ UNCHANGED <<eventVars, route, capacity, reporter>>

SpecPriority == TrafficInit({}, Ambulances) /\ [][PriorityNext]_vars

\* The ambulances when random.choice has put each of them on a hospital
SpecShuttle == TrafficInitFrom({}, Ambulances, 0, {}, hospital_positions)
                  /\ [][PriorityNext]_vars

\* One vehicle alone with the lights and the roadblocks, for a longer time
HorizonAlone == 950

AloneNext ==
    /\ LightsAndRoadblocks \/ VehiclesNext \/ advance(HorizonAlone)
    /\ UNCHANGED <<eventVars, route, capacity, reporter>>

SpecAlone == TrafficInit({"Vehicle 1"}, {}) /\ [][AloneNext]_vars

\* The vehicles crowded on a light and the node north of it, where the
\* ambulance is
CrowdNodes == {n \in Nodes : \E l \in traffic_lights : n[1] = l[1] /\ n[2] - l[2] \in {0, 1}}

SpecCrowd == TrafficInitFrom(Vehicles, {"Ambulance 1"}, 0, CrowdNodes,
                             CrowdNodes \cap EmergencyStartNodes)
                /\ [][TrafficNext]_vars

\* One vehicle that has started, with the lights, a little before the
\* roadblock loop
EarlyStart == -10
HorizonEarly == 520

EarlyNext ==
    /\ LightsAndRoadblocks \/ VehiclesNext \/ advance(HorizonEarly)
    /\ UNCHANGED <<eventVars, route, capacity, reporter>>

SpecEarly == TrafficInitAt({"Vehicle 1"}, {}, EarlyStart) /\ [][EarlyNext]_vars

(***************************************************************************)
(* Claims about the incident store.                                        *)
(***************************************************************************)
\* C1: is_blocked(segment, threshold) answers TRUE exactly when the store holds
\* for that segment an incident that is active at the time of the query
\* (now < expires_at) with severity >= threshold; an incident whose expiry has
\* passed answers FALSE although nobody swept it before the query.
C1_BlockedIffActiveSevere ==
    query.op = "is_blocked" =>
        query.result = (/\ query.met # <<>>
                        /\ query.at < query.met[1].expires_at
                        /\ query.met[1].severity >= query.threshold)

\* C1 witness: a query met an expired, severe incident still in the store and
\* answered FALSE
C1_Witness ==
    /\ query.op = "is_blocked"
    /\ query.met # <<>>
    /\ query.met[1].expires_at <= query.at
    /\ query.met[1].severity >= query.threshold
    /\ query.result = FALSE

SeverityExpiry(store, e) ==
    IF e \in DOMAIN store THEN <<store[e].severity, store[e].expires_at>> ELSE <<>>

C11_MaxWins ==
    (/\ Len(gossip) = 2
     /\ normalize_edge(gossip[1].fact.edge) = normalize_edge(gossip[2].fact.edge)
     /\ stored(gossip[1].pre, gossip[1].fact.edge) = <<>>
     /\ gossip[2].fact.severity < gossip[1].fact.severity
     /\ gossip[2].fact.expires_at < gossip[1].fact.expires_at
     /\ now < gossip[2].fact.expires_at)
    => /\ stored(incidents, gossip[1].fact.edge) # <<>>
       /\ stored(incidents, gossip[1].fact.edge)[1].severity = gossip[1].fact.severity
       /\ stored(incidents, gossip[1].fact.edge)[1].expires_at = gossip[1].fact.expires_at

(***************************************************************************)
(* Claims about the occupancy tracker.                                     *)
(***************************************************************************)
\* C12: whatever agents entered and left and whatever capacities were set,
\* every stored smoothed density and every value returned by a density call
\* lies between 0 and 1.
C12_DensityInUnitRange ==
    /\ \A e \in DOMAIN smoothed_density :
            0 <= smoothed_density[e] /\ smoothed_density[e] <= Scale
    /\ query.op \in {"rho", "local_density"} =>
            0 <= query.result /\ query.result <= Scale

\* C12 witness: a density was returned for an edge that holds more agents
\* than the capacity set for it, for the second time in a row
C12_Witness ==
    /\ query.op = "rho"
    /\ query.calls >= 2
    /\ capacity[query.edge] # Capacity
    /\ Cardinality(road_usage[query.edge]) > capacity[query.edge]
    /\ query.result > Scale \div 2


\* C23: every incident the store holds has expires_at = created_at + ttl,
\* whatever spawns and refreshes came before.
C23_ExpiryIsCreationPlusTtl ==
    \A e \in DOMAIN incidents :
        incidents[e].expires_at = incidents[e].created_at + incidents[e].ttl


\* C24: spawn on a segment that holds an active incident sets its severity to
\* the greater of the old and the new one and its expiry to now + ttl, so that
\* no spawn lowers the severity of an active incident; spawn on a segment
\* without an active incident stores the given severity as it is.
C24_SpawnKeepsGreaterSeverity ==
    query.op = "spawn" =>
        LET after == stored(incidents, query.edge)
            refreshed == query.met # <<>> /\ is_active(query.met[1], query.at)
        IN  /\ after # <<>>
            /\ after[1].expires_at = query.at + query.ttl
            /\ after[1].severity = IF refreshed
                                   THEN Max(query.met[1].severity, query.severity)
                                   ELSE query.severity

\* An active incident was refreshed, some time after its creation, by a spawn
\* of lower severity
C24_Witness ==
    /\ query.op = "spawn"
    /\ query.met # <<>>
    /\ is_active(query.met[1], query.at)
    /\ query.met[1].created_at < query.at
    /\ query.severity < query.met[1].severity
    /\ stored(incidents, query.edge)[1].severity = query.met[1].severity


\* The same segment named the other way round
opposite(edge) == <<edge[2], edge[1]>>

\* The keys of a store that stand for the segment of the edge
keys_of(store, edge) == {k \in DOMAIN store : k \in {edge, opposite(edge)}}

\* C25: segments have no direction in either store: an operation given (u, v)
\* reads and writes the record the operation given (v, u) does.  A spawn on
\* (u, v) makes is_blocked((v, u)) true, the queries answer alike both ways
\* round, a segment has one incident record, and leave(v, u, id) undoes
\* enter(u, v, id).
C25_SegmentsUndirected ==
    /\ \A e \in DOMAIN incidents : e[1] # e[2] => opposite(e) \notin DOMAIN incidents
    /\ \A e \in StoreEdges, th \in Thresholds :
          /\ is_blocked(incidents, e, th, now) = is_blocked(incidents, opposite(e), th, now)
          /\ penalty(incidents, e, now) = penalty(incidents, opposite(e), now)
    /\ (query.op = "spawn" /\ query.severity >= BlockThreshold)
          => is_blocked(incidents, opposite(query.edge), BlockThreshold, now)
    /\ query.op = "enter" =>
          /\ \E k \in keys_of(road_usage, query.edge) : query.id \in road_usage[k]
          /\ \A k \in keys_of(road_usage, query.edge) :
                query.id \notin leave(road_usage, query.edge[2], query.edge[1], query.id)[k]
    /\ query.op = "leave" =>
          \A k \in keys_of(road_usage, query.edge) : query.id \notin road_usage[k]

\* A segment blocked by a spawn that named it from its greater node to its
\* lesser one, while a vehicle that entered it is on it
C25_Witness ==
    /\ query.op = "spawn"
    /\ query.edge # normalize_edge(query.edge)
    /\ query.severity >= BlockThreshold
    /\ is_blocked(incidents, opposite(query.edge), BlockThreshold, now)
    /\ \E k \in keys_of(road_usage, query.edge) : road_usage[k] # {}

(***************************************************************************)
(* Claims about the traffic lights.                                        *)
(***************************************************************************)
\* C4: the directions a light has granted to ordinary vehicles since its last
\* phase switch all belong to the set of its phase (phase 0: N and S, phase 1:
\* E and W), so a north-south and an east-west passage are never both granted
\* within one phase interval.
C4_GrantsFollowPhase ==
    \A l \in traffic_lights :
        /\ granted_dirs[l] \subseteq (IF light[l].phase = 0 THEN {"N", "S"} ELSE {"E", "W"})
        /\ ~(granted_dirs[l] \cap {"N", "S"} # {} /\ granted_dirs[l] \cap {"E", "W"} # {})

\* C4 witness: two passages of different directions were granted within one
\* phase interval
C4_Witness ==
    \E l \in traffic_lights : Cardinality(granted_dirs[l]) = 2

\* C6: a priority_request whose body parses is answered granted = TRUE,
\* whatever the phase and whether or not its segment is blocked.
C6_PriorityGranted ==
    (answered.op = "reply" /\ answered.type = "priority_request" /\ Len(answered.body) = 2)
        => answered.granted

\* C6 witness: a priority request was answered for a move the phase does not
\* allow, on a blocked segment
C6_Witness ==
    /\ answered.op = "reply"
    /\ answered.type = "priority_request"
    /\ Len(answered.body) = 2
    /\ answered.blocked
    /\ direction(answered.body[1], answered.body[2]) = "E"
    /\ answered.phase = 0
    /\ answered.granted

\* The request just answered came from an ordinary vehicle and its body parsed
PassageAnswered ==
    answered.op = "reply" /\ answered.type # "priority_request" /\ Len(answered.body) = 2

\* C8 as stated: a passage request is granted iff its direction is in the set
\* of the phase and its segment is not incident-blocked; every denial of one of
\* the four directions that is outside that set carries phase_check, and every
\* denial on a blocked segment carries blocked_by_incident.
C8_ReasonByCause ==
    PassageAnswered =>
        LET d == direction(answered.body[1], answered.body[2])
            permitted == IF answered.phase = 0 THEN {"N", "S"} ELSE {"E", "W"}
        IN  /\ answered.granted = (d \in permitted /\ ~answered.blocked)
            /\ (~answered.granted /\ d # "None" /\ d \notin permitted)
                    => answered.reason = "phase_check"
            /\ (~answered.granted /\ answered.blocked)
                    => answered.reason = "blocked_by_incident"

\* C8 amended: a passage request is granted iff its direction is in the set of
\* the phase and its segment is not incident-blocked; a denial on a blocked
\* segment carries blocked_by_incident whatever the direction, and a denial of
\* one of the four directions on a segment that is not blocked carries
\* phase_check.
C8_BlockedReasonFirst ==
    PassageAnswered =>
        LET d == direction(answered.body[1], answered.body[2])
            permitted == IF answered.phase = 0 THEN {"N", "S"} ELSE {"E", "W"}
        IN  /\ answered.granted = (d \in permitted /\ ~answered.blocked)
            /\ (~answered.granted /\ answered.blocked)
                    => answered.reason = "blocked_by_incident"
            /\ (~answered.granted /\ ~answered.blocked /\ d # "None")
                    => answered.reason = "phase_check"

\* C8 witness: a request was denied with blocked_by_incident although its
\* direction is one the phase does not allow
C8_Witness ==
    /\ PassageAnswered
    /\ answered.blocked
    /\ answered.phase = 0
    /\ direction(answered.body[1], answered.body[2]) = "E"
    /\ ~answered.granted
    /\ answered.reason = "blocked_by_incident"

(***************************************************************************)
(* Claims about the negotiation between vehicles and lights.               *)
(***************************************************************************)
\* The agents the board shows on a node
holders(board, node) ==
    {name \in DOMAIN board.vehicles : board.vehicles[name] = node}
        \cup {name \in DOMAIN board.emergency : board.emergency[name] = node}

\* C5: an ordinary vehicle never moves, by a planned step or by a random step,
\* onto a node that the board shows as held by another vehicle or ambulance
\* when the move is committed: after a move the board shows the mover alone on
\* the node, and a vehicle whose target was held stays where it was, with its
\* path and goal cleared.
C5_NeverOntoHeldNode ==
    (moved.op = "move" /\ moved.agent \in DOMAIN veh) =>
        /\ moved.done => /\ ~moved.held
                         /\ holders(shared, moved.to) = {moved.agent}
        /\ moved.held => /\ veh[moved.agent].position = moved.from
                         /\ shared.vehicles[moved.agent] = moved.from
                         /\ veh[moved.agent].path = <<>>
                         /\ veh[moved.agent].goal = <<>>

\* The instant of the first step of the vehicles
FirstStep == VehicleFirstSleep + IncidentTimeout

\* C5 witness: two vehicles targeted the same free node in their first tick;
\* one stands on it, the other has just been refused it
C5_Witness ==
    /\ now = FirstStep
    /\ moved.op = "move"
    /\ moved.agent \in DOMAIN veh
    /\ moved.held
    /\ moved.to \notin StartNodes
    /\ \E w \in DOMAIN veh \ {moved.agent} : veh[w].position = moved.to
    /\ veh[moved.agent].position = moved.from

\* The number of denials after which a vehicle would give a move up, as
\* tried here
DenialLimit == 2

\* C13: for one intended move a vehicle sends a bounded number of requests:
\* once it has been denied DenialLimit times it does not ask the light again
\* for that move.
C13_BoundedRequests ==
    \A v \in DOMAIN veh :
        veh[v].pc = "await_reply" => veh[v].denials < DenialLimit

\* The time the negotiation of one move takes at most if every request is
\* sent again once when it is not answered and the move is given up after
\* DenialLimit denials
NegotiationLimit ==
    (DenialLimit + 1) * (VehicleReplyTimeout + RetrySleep + VehicleReplyTimeout + DeniedSleep)

\* C14: no vehicle waits in the negotiation of one move without end: a tick
\* that has begun to ask a light is over, by a grant or by giving the move
\* up, within the time its timeouts and retries add up to.
C14_NoEndlessWait ==
    \A v \in DOMAIN veh :
        veh[v].asked_at # NotAsked => now - veh[v].asked_at <= NegotiationLimit

\* C15: a request that is not answered within the timeout is sent again
\* exactly once; when the second wait returns nothing either the exchange is
\* treated as denied, and no third request is sent for it.  An ambulance
\* has at most its resend pending; a vehicle that waits for a reply has seen
\* at most one receive in a row return nothing.
C15_OneResend ==
    \A v \in DOMAIN veh :
        veh[v].pc = "await_reply" => veh[v].silent <= 1

\* C16: every move an agent, ordinary or emergency, commits into a node guarded
\* by a light follows a granted reply the agent has received for it: no agent
\* enters a guarded node before or without the grant.
C16_GrantBeforeGuardedMove ==
    (moved.op = "move" /\ moved.done /\ moved.from # moved.to
        /\ moved.to \in traffic_lights) => moved.granted

\* C17: the intersection check that lets an ordinary vehicle move holds at the
\* time of the commit: when the vehicle commits a move into a guarded node on
\* a grant, the phase of the light admits its direction and its segment is not
\* blocked (no grant is used once it is stale).
C17_GrantFreshAtCommit ==
    (moved.op = "move" /\ moved.agent \in DOMAIN veh /\ moved.done /\ moved.granted)
        => (moved.permitted /\ ~moved.blocked)

\* C18: an emergency vehicle never moves across a segment that is blocked at
\* the time of the move, be the step one of its planned path or a random one:
\* its priority at the lights does not take it across a block.
C18_NoBlockedCrossing ==
    (moved.op = "move" /\ moved.agent \in DOMAIN amb /\ moved.from # moved.to)
        => ~moved.blocked

\* An ambulance has stayed where it is because the next segment of its path
\* is blocked
C18_Witness ==
    /\ moved.op = "move"
    /\ moved.agent \in DOMAIN amb
    /\ moved.refused
    /\ moved.from = moved.to
    /\ amb[moved.agent].position = moved.from
    /\ \E nb \in neighbors(moved.from) :
           is_blocked(incidents, <<moved.from, nb>>, BlockThreshold, now)

\* C19: an emergency vehicle never ends a tick on a node held by an ordinary
\* vehicle, and ends a tick on a node held by another emergency vehicle only
\* when the node is a hospital; in any other conflict it is back on the node
\* it came from.
C19_NoSharedNodeAfterTick ==
    (moved.op = "move" /\ moved.agent \in DOMAIN amb) =>
        LET a == moved.agent
            here == amb[a].position
        IN  /\ \A v \in DOMAIN veh : veh[v].position # here
            /\ \A o \in DOMAIN amb \ {a} :
                   amb[o].position = here => here \in hospital_positions
            /\ ~moved.done => here = moved.from

\* C20: on every move committed from a to b the agent is taken out of the
\* occupants of the segment it was on and put among those of segment (a, b):
\* after any moves an agent's label is among the occupants of one segment at
\* most.
C20_OneSegmentPerAgent ==
    \A x \in DOMAIN veh \cup DOMAIN amb :
        Cardinality({e \in Segments : x \in road_usage[e]}) <= 1

\* C7: an emergency vehicle never needs its resend: whenever it has moved over
\* a segment that is not incident-blocked, the first priority_request it sent
\* for the move is answered within the reply timeout of 0.6 s.  A tick in
\* which the ambulance stayed where it was is left out.
C7_SingleExchange ==
    \A a \in DOMAIN amb :
        amb[a].pc \in {"resend_sleep", "await_resent"} =>
            \/ amb[a].move[1] = amb[a].move[2]
            \/ is_blocked(incidents, amb[a].move, BlockThreshold, now)

(***************************************************************************)
(* Claims about the router.                                                *)
(***************************************************************************)
\* C2: whenever astar or route_a_star returns a path, the path starts at start,
\* ends at goal, every consecutive pair of its nodes is an edge of the grid,
\* and none of its edges is incident-blocked at the time of the call.
C2_RouterSound ==
    (route.fn # "none" /\ route.result.kind = "path") =>
        LET p == route.result.path
        IN  /\ Len(p) >= 1
            /\ p[1] = route.start
            /\ p[Len(p)] = route.goal
            /\ \A i \in 1 .. Len(p) - 1 :
                    /\ <<p[i], p[i + 1]>> \in DirectedEdges
                    /\ <<p[i], p[i + 1]>> \notin route.blocked

\* C2 witness: a path was returned that is longer than the Manhattan distance,
\* because a blocked segment lay on every shortest way
C2_Witness ==
    /\ route.fn = "astar"
    /\ route.result.kind = "path"
    /\ route.blocked # {}
    /\ Len(route.result.path) - 1 > manhattan(route.start, route.goal)

\* The nodes reachable from the nodes of S over edges that are not blocked
RECURSIVE reach(_, _)
reach(S, blocked) ==
    LET more == S \cup {n \in Nodes : \E m \in S : n \in neighbors(m) /\ <<m, n>> \notin blocked}
    IN  IF more = S THEN S ELSE reach(more, blocked)

\* C3: when the goal is reachable from start over edges that are not
\* incident-blocked, a routing call that ignores capacity returns a non-empty path.
C3_RouterComplete ==
    (/\ route.fn # "none"
     /\ route.ignore_capacity
     /\ route.goal \in reach({route.start}, route.blocked))
        => (route.result.kind = "path" /\ Len(route.result.path) >= 1)


\* C21: route_a_star, run on the city's EventManager and Occupancy, returns None
\* and raises nothing when blocked (or, for a caller that respects capacity,
\* full) edges cut the goal off from the start.
C21_NoPathIsReturned ==
    (/\ route.fn = "route_a_star"
     /\ route.goal \notin reach({route.start}, route.blocked))
        => route.result = NoPath


\* C22: the router leaves out an edge altogether when its segment is blocked
\* and, for a caller that respects capacity only, when it is full: no path
\* returned has a blocked edge, none returned to a caller that respects
\* capacity has a full edge, and a caller that ignores capacity is taken over
\* a full segment that is not blocked when that is the one step to its goal.
C22_PrunesBlockedAndFull ==
    route.fn = "route_a_star" =>
        LET p == route.result.path
            steps == {<<p[i], p[i + 1]>> : i \in 1 .. Len(p) - 1}
            direct == <<route.start, route.goal>>
        IN  /\ route.result.kind = "path" =>
                /\ steps \cap route.blocked = {}
                /\ ~route.ignore_capacity => steps \cap route.full = {}
            /\ (route.ignore_capacity /\ direct \in route.full \ route.blocked)
                    => route.result = Found(direct)

\* The body names two nodes
names_nodes(body) == Len(body) = 2 /\ Len(body[1]) = 2 /\ Len(body[2]) = 2

\* The move from body[1] to body[2] is one cell along one axis
unit_step(body) ==
    LET dx == body[2][1] - body[1][1]
        dy == body[2][2] - body[1][2]
    IN  (IF dx < 0 THEN -dx ELSE dx) + (IF dy < 0 THEN -dy ELSE dy) = 1

\* C26: a passage request between two nodes whose move is diagonal, zero or
\* longer than one cell is answered, in phase 0 and in phase 1 alike, with
\* granted = false and reason unknown_direction, and the light that answered it
\* goes on running.
C26_OddMoveDenied ==
    (/\ answered.op \in {"reply", "raised"}
     /\ answered.type # "priority_request"
     /\ names_nodes(answered.body)
     /\ ~unit_step(answered.body))
    => /\ answered.op = "reply"
       /\ ~answered.granted
       /\ answered.reason = "unknown_direction"
       /\ light[answered.light].pc \in {"sleep", "run", "receive"}

\* A diagonal move was denied while the light was in phase 1
C26_Witness ==
    /\ answered.op = "reply"
    /\ answered.type = "passage_request"
    /\ names_nodes(answered.body)
    /\ answered.body[2][1] # answered.body[1][1]
    /\ answered.body[2][2] # answered.body[1][2]
    /\ answered.phase = 1
    /\ answered.reason = "unknown_direction"
    /\ light[answered.light].pc = "sleep"

\* C27: every message a light takes from its mailbox is answered with one
\* passage_reply that carries a granted flag and a non-empty reason, and a
\* message whose body does not parse into "from" and "to" is answered with
\* granted = false and reason invalid_body.
C27_EveryMessageAnswered ==
    answered.op \in {"reply", "raised"}
    => /\ answered.op = "reply"
       /\ answered.granted \in BOOLEAN
       /\ answered.reason # ""
       /\ Len(answered.body) # 2
            => ~answered.granted /\ answered.reason = "invalid_body"

\* C28: whenever the incident reporter has created an incident, it has sent
\* one incident_gossip message with the segment, the severity, the expiry and
\* hop_ttl 4 to every vehicle and every traffic light, and the message is in
\* the mailbox of each of them.
C28_SpawnIsGossiped ==
    answered.op = "report"
    => /\ vehicle_jids \cup {light_jid(l) : l \in traffic_lights} \subseteq answered.sent
       /\ \A j \in DOMAIN mbox :
            \E i \in 1 .. Len(mbox[j]) :
                /\ mbox[j][i].type = "incident_gossip"
                /\ mbox[j][i].hop_ttl = HopTtl
                /\ mbox[j][i].payload.edge = answered.edge

\* C29: a light starts in phase 0, its phase is always 0 or 1, and a run of
\* its behaviour at time now flips the phase and sets _last_switch to now
\* exactly when now - _last_switch >= phase_duration; otherwise the run leaves
\* phase and _last_switch as they were.
C29_PhaseFlipsWhenDue ==
    /\ \A l \in DOMAIN light : light[l].phase = 0
    /\ [](\A l \in DOMAIN light : light[l].phase \in {0, 1})
    /\ [][\A l \in DOMAIN light :
            LightRun(l) =>
                IF now - light[l].last_switch >= light'[l].phase_duration
                THEN /\ light'[l].phase = 1 - light[l].phase
                     /\ light'[l].last_switch = now
                ELSE /\ light'[l].phase = light[l].phase
                     /\ light'[l].last_switch = light[l].last_switch]_vars

\* A run has just flipped a light to phase 1, later than its duration after
\* the start because the light was asleep after a reply when the duration passed
C29_Witness ==
    \E l \in DOMAIN light :
        /\ light[l].phase = 1
        /\ light[l].last_switch = now
        /\ light[l].pc = "receive"
        /\ now > light[l].phase_duration

\* C30: the phase duration of every light is between 3 s and 8 s in every
\* state: before the first density reading, after each adaptation, and with
\* the value the light falls back to when the density read fails.
C30_DurationInRange ==
    /\ \A l \in DOMAIN light :
        light[l].phase_duration >= MinPhase /\ light[l].phase_duration <= MaxPhase
    /\ on_density_error >= MinPhase /\ on_density_error <= MaxPhase

\* A light whose duration was adapted to a density above zero
C30_Witness ==
    \E l \in DOMAIN light :
        /\ light[l].pc = "receive"
        /\ light[l].phase_duration > MinPhase
        /\ light[l].phase_duration # PHASE_DURATION

(***************************************************************************)
(* Claims about the agents' plans and moves.                               *)
(***************************************************************************)
\* C31: every time an emergency vehicle handles its arrival at a goal, its
\* phase changes: to_hospital becomes to_random and to_random becomes
\* to_hospital.
C31_PhaseTogglesOnArrival ==
    [][\A a \in DOMAIN amb :
          AmbulancePauseEnd(a) =>
              amb'[a].phase = IF amb[a].phase = "to_hospital"
                              THEN "to_random" ELSE "to_hospital"]_vars

\* The path is empty, or starts where the agent is and follows the roads
path_valid(rec) ==
    \/ rec.path = <<>>
    \/ /\ rec.path[1] = rec.position
       /\ \A i \in 1 .. Len(rec.path) - 1 : rec.path[i + 1] \in neighbors(rec.path[i])

\* C32: when a run of a vehicle's or an ambulance's behaviour has returned,
\* the agent's path is empty or has the agent's position as its first node,
\* and every two consecutive nodes of the path are joined by a road.
C32_PathStartsAtPosition ==
    /\ \A v \in DOMAIN veh : veh[v].pc = "idle" => path_valid(veh[v])
    /\ \A a \in DOMAIN amb : amb[a].pc = "idle" => path_valid(amb[a])

\* A vehicle has made a step of its plan, with more of the plan ahead
C32_Witness ==
    /\ moved.op = "move"
    /\ moved.agent \in DOMAIN veh
    /\ moved.done
    /\ moved.from # moved.to
    /\ veh[moved.agent].pc = "idle"
    /\ Len(veh[moved.agent].path) >= 2

\* The step just decided was given up by the collision check: the vehicle's
\* test of lines 452-455, the ambulance's must_block
aborted(m, board) ==
    /\ m.op = "move"
    /\ \/ m.agent \in DOMAIN veh /\ ~m.random /\ occupied(board, m.agent, m.to)
       \/ m.agent \in DOMAIN amb /\ must_block(board, m.agent, m.to)

\* The agent record of a label
agent_rec(vs, as, label) == IF label \in DOMAIN vs THEN vs[label] ELSE as[label]

\* C33: a run in which the collision check gives up the agent's move leaves
\* the agent's position, the shared position board and every occupancy set
\* as they were, and leaves the agent without path and without goal.
C33_AbortedMoveChangesNothing ==
    [][(moved' # moved /\ aborted(moved', shared))
          => /\ agent_rec(veh', amb', moved'.agent).position
                   = agent_rec(veh, amb, moved'.agent).position
             /\ shared' = shared
             /\ road_usage' = road_usage
             /\ agent_rec(veh', amb', moved'.agent).path = <<>>
             /\ agent_rec(veh', amb', moved'.agent).goal = <<>>]_vars

\* A vehicle has given up a step of its plan because the target was taken
C33_Witness ==
    /\ aborted(moved, shared)
    /\ moved.agent \in DOMAIN veh
    /\ moved.from # moved.to
    /\ veh[moved.agent].position = moved.from
    /\ veh[moved.agent].path = <<>>

\* C35: a vehicle never makes a step over a segment that an incident blocks
\* at the moment of the step, whether the node it steps onto has a traffic
\* light or not.
C35_VehicleAvoidsBlocked ==
    (/\ moved.op = "move"
     /\ moved.agent \in DOMAIN veh
     /\ moved.done
     /\ moved.from # moved.to)
    => ~moved.blocked

\* C36: every change of the position of a vehicle or an ambulance takes it to
\* a node adjacent to the one it stood on, and the position of every agent is
\* a node of the graph in every state
C36_MovesAreSingleSegments ==
    /\ [](/\ \A v \in DOMAIN veh : veh[v].position \in Nodes
          /\ \A a \in DOMAIN amb : amb[a].position \in Nodes)
    /\ [][/\ \A v \in DOMAIN veh : veh'[v].position # veh[v].position
                    => veh'[v].position \in neighbors(veh[v].position)
          /\ \A a \in DOMAIN amb : amb'[a].position # amb[a].position
                    => amb'[a].position \in neighbors(amb[a].position)]_vars

\* An ambulance has moved along its plan after a vehicle moved along its own
C36_Witness ==
    /\ moved.op = "move" /\ moved.agent \in DOMAIN amb
    /\ moved.done /\ ~moved.random /\ moved.to \in neighbors(moved.from)
    /\ amb[moved.agent].position = moved.to
    /\ \E v \in DOMAIN veh : veh[v].steps_since_plan > 0

\* The requests of an agent that no light has taken yet
pending_requests(boxes, label) ==
    UNION {{<<l, i>> : i \in {j \in DOMAIN boxes[light_jid(l)] :
                                boxes[light_jid(l)][j].sender = agent_jid(label)}} :
              l \in traffic_lights}

\* The message at the head of the agent's mailbox answers the request the
\* agent sent last: the lights have taken every request of the agent, and no
\* other message waits in front of the answer to the last one
answers_last_request(boxes, label) ==
    /\ pending_requests(boxes, label) = {}
    /\ Len(boxes[agent_jid(label)]) = 1

\* C37: a vehicle leaves _wait_for_green on a grant only when the granted
\* reply answers the request it has just sent for this move: the reply to an
\* earlier request, come late after a resend or meant for another move, is
\* never taken as the grant.
C37_GrantAnswersThisRequest ==
    [][\A v \in DOMAIN veh :
          (VehicleReply(v) /\ is_grant(Head(mbox[agent_jid(v)])))
              => answers_last_request(mbox, v)]_vars

\* C38: the requests waiting at a light are never more than the agents that
\* ask it: no vehicle and no ambulance has more than one request waiting at
\* one light.
C38_OneRequestOutstanding ==
    \A label \in DOMAIN veh \cup DOMAIN amb : \A l \in traffic_lights :
        Cardinality({p \in pending_requests(mbox, label) : p[1] = l}) <= 1

\* C39: whenever an agent is suspended (every state lies between two awaits)
\* its entry on the shared board is its own position: the board never shows
\* a node the agent has left or has not reached yet
C39_BoardShowsPosition ==
    /\ \A v \in DOMAIN veh : shared.vehicles[v] = veh[v].position
    /\ \A a \in DOMAIN amb : shared.emergency[a] = amb[a].position

\* A vehicle and an ambulance have both left the nodes they started on, and
\* the agent that moved last is shown at the node it moved to
C39_Witness ==
    /\ moved.op = "move" /\ moved.done /\ moved.from # moved.to
    /\ \E v \in DOMAIN veh : veh[v].steps_since_plan > 0 /\ shared.vehicles[v] = veh[v].position
    /\ \E a \in DOMAIN amb : amb[a].steps_since_plan > 0 /\ shared.emergency[a] = amb[a].position
    /\ moved.to \in {shared.vehicles[v] : v \in DOMAIN veh}
                       \cup {shared.emergency[a] : a \in DOMAIN amb}

\* C40: two phase flips of one light that follow each other are at least 3 s
\* (the least phase duration) apart, whatever densities are read and whatever
\* requests arrive in between: the time of the last switch is the start of
\* the light or the time of its last flip, and no flip comes before 3 s have
\* gone by since then.
C40_FlipsThreeSecondsApart ==
    /\ \A l \in traffic_lights : light[l].last_switch = 0
    /\ [][\A l \in traffic_lights :
            /\ light'[l].phase # light[l].phase
                  => /\ now - light[l].last_switch >= MinPhase
                     /\ light'[l].last_switch = now
            /\ light'[l].phase = light[l].phase
                  => light'[l].last_switch = light[l].last_switch]_vars

\* A light is back in phase 0 after its second flip
C40_Witness ==
    \E l \in traffic_lights :
        /\ light[l].phase = 0
        /\ light[l].last_switch >= 2 * MinPhase
        /\ now > light[l].last_switch

====
